---------------------------- MODULE Spec2Model ----------------------------
(***************************************************************************)
(* Bridge between a WhatsApp session and a Chatwoot desk.                  *)
(*                                                                         *)
(* Inbound half: ChatwootService.HandleMessage and the functions it calls  *)
(* (src/lib/whatsmiau/chatwoot_service.go, lines 1-890).  Every inbound    *)
(* event is one unit of work; two units may run concurrently and they      *)
(* interleave at their external calls (desk REST API, PostgreSQL query).   *)
(*                                                                         *)
(* Outbound half: the desk webhook handlers                                *)
(*   ReceiveWebhook / handleTextMessage      src/server/controllers/chatwoot.go *)
(*   ReceiveWebhook / handleOutgoingMessage  src/unnamed/part_007          *)
(* Each webhook request is handled by one action.                          *)
(***************************************************************************)
EXTENDS Integers, Sequences, FiniteSets, TLC

VARIABLES
    dbConnected,    \* c.db != nil, fixed by NewChatwootService
    contacts,       \* desk: sequence of phone_number, contact id = index
    conversations,  \* desk: sequence of [contact, inbox, status], id = index
    messages,       \* desk table `messages`: set of [conv, source_id, n]
    started,        \* number of HandleMessage invocations so far
    pc,             \* per unit of work: position in HandleMessage
    msg,            \* per unit of work: the WookMessageData being handled
    contactID,      \* per unit of work: local contactID
    convID,         \* per unit of work: local conversationID
    found,          \* per unit of work: payload of the contacts/filter response
    listed,         \* per unit of work: payload of the conversations response
    guard,          \* per unit of work: outcome of checkMessageExists
    calls,          \* per unit of work: external calls issued, in order
    resp,           \* per unit of work: how each of these calls returned
    okContact,      \* history: successful findOrCreateContact results per phone
    out             \* outbound: the webhook request handled last

vars == <<dbConnected, contacts, conversations, messages, started, pc, msg,
          contactID, convID, found, listed, guard, calls, resp, okContact, out>>

inVars == <<dbConnected, contacts, conversations, messages, started, pc, msg,
            contactID, convID, found, listed, guard, calls, resp, okContact>>

-----------------------------------------------------------------------------
(* Bounds *)

MaxEvents == 1

Procs == {1, 2}

-----------------------------------------------------------------------------
(* Strings are sequences of characters. *)

WAID == <<"W", "A", "I", "D", ":">>

HasPrefix(s, prefix) ==
    /\ Len(s) >= Len(prefix)
    /\ SubSeq(s, 1, Len(prefix)) = prefix

\* Index of the first occurrence of character c in s, 0 when absent.
RECURSIVE IndexFrom(_, _, _)
IndexFrom(s, c, i) ==
    IF i > Len(s) THEN 0
    ELSE IF s[i] = c THEN i
    ELSE IndexFrom(s, c, i + 1)

Index(s, c) == IndexFrom(s, c, 1)

\* strings.Split(s, sep)[0]
SplitFirst(s, c) ==
    IF Index(s, c) = 0 THEN s ELSE SubSeq(s, 1, Index(s, c) - 1)

\* Mutant: the device suffix after ":" is kept.
extractPhone_KeepsDevice(remoteJid) == SplitFirst(remoteJid, "@")

extractPhone(remoteJid) == SplitFirst(SplitFirst(remoteJid, "@"), ":")

SourceID(messageID) == WAID \o messageID

PlusPhone(phone) == <<"+">> \o phone

-----------------------------------------------------------------------------
(* Inputs of the inbound half *)

\* config.InboxID of the tenant; any other inbox id is a foreign inbox.
InboxID == 1

OtherInbox == InboxID + 1

\* "551:7@s.whatsapp.net": a user chat seen from a companion device.
UserJid ==
    <<"5", "5", "1", ":", "7", "@", "s", ".", "w", "h", "a", "t", "s",
      "a", "p", "p", ".", "n", "e", "t">>

\* "status@broadcast": the status pseudo-chat.
StatusJid ==
    <<"s", "t", "a", "t", "u", "s", "@", "b", "r", "o", "a", "d", "c",
      "a", "s", "t">>

\* "551@s.whatsapp.net": the same user chat without a device part.
PlainJid ==
    <<"5", "5", "1", "@", "s", ".", "w", "h", "a", "t", "s", "a", "p", "p",
      ".", "n", "e", "t">>

Jids == {UserJid, PlainJid, StatusJid}

MsgIds == {<<"A">>, <<"B">>}

\* The members of a message that HandleMessage and extractMessageText read:
\* the inline payload, the conversation text, which of ImageMessage,
\* VideoMessage, DocumentMessage, ContactMessage, ReactionMessage is set
\* ("other": none of them), and the fields of that member (Text is the
\* reaction's; DisplayName and waid, the digits after "waid=" in the vCard,
\* are the contact's).
MessageOf(base64, conversation, kind, caption, fileName) ==
    [Base64 |-> base64, Conversation |-> conversation, kind |-> kind,
     Caption |-> caption, FileName |-> fileName, Text |-> <<>>,
     DisplayName |-> <<>>, waid |-> <<>>]

NoContent == MessageOf(<<>>, <<>>, "other", <<>>, <<>>)

\* Message contents: plain text, inline media (Base64 set), nothing usable.
Contents ==
    { MessageOf(<<>>, <<"h", "i">>, "other", <<>>, <<>>),
      MessageOf(<<"Q", "Q", "=", "=">>, <<>>, "image", <<>>, <<>>),
      NoContent }

\* Further contents: payload and text together, a payload that is not
\* base64, members without a payload, with and without something to show.
DispatchContents ==
    Contents \cup
    { MessageOf(<<"Q", "Q", "=", "=">>, <<"h", "i">>, "image", <<"h", "i">>, <<>>),
      MessageOf(<<"?">>, <<"h", "i">>, "image", <<>>, <<>>),
      MessageOf(<<>>, <<>>, "image", <<"h", "i">>, <<>>),
      MessageOf(<<>>, <<>>, "image", <<>>, <<>>),
      MessageOf(<<>>, <<>>, "video", <<"h", "i">>, <<>>),
      MessageOf(<<>>, <<>>, "video", <<>>, <<>>),
      MessageOf(<<>>, <<>>, "document", <<"h", "i">>, <<"r", ".", "p", "d", "f">>),
      MessageOf(<<>>, <<>>, "document", <<>>, <<"r", ".", "p", "d", "f">>),
      MessageOf(<<>>, <<>>, "document", <<>>, <<>>),
      [MessageOf(<<>>, <<>>, "contact", <<>>, <<>>)
         EXCEPT !.DisplayName = <<"J", "o">>, !.waid = <<"5", "5", "1">>],
      MessageOf(<<>>, <<>>, "contact", <<>>, <<>>),
      [MessageOf(<<>>, <<>>, "reaction", <<>>, <<>>) EXCEPT !.Text = <<"U+1F44D">>],
      MessageOf(<<>>, <<>>, "reaction", <<>>, <<>>) }

\* Seconds between the network timestamp of a message and its handling.
Ages == {0, 40}

PushNames == {<<>>, <<"J", "o">>}

\* Messages of the user chat handled at once vary in every field; delayed
\* messages and status messages vary in their content.
Msgs ==
    { m \in [RemoteJid : Jids, Id : MsgIds, FromMe : BOOLEAN,
             PushName : PushNames, Message : Contents, age : Ages] :
        (m.RemoteJid # UserJid \/ m.age # 0)
        => m.Id = <<"B">> /\ ~m.FromMe /\ m.PushName = <<>> }

Phones == {extractPhone(j) : j \in Jids}

\* Outcome of one HTTP exchange with the desk: a 2xx answer, a transport or
\* decoding error, or a non-2xx answer whose JSON body lacks the expected keys.
Outcomes == {"ok", "err", "http4xx"}

\* The calls HandleMessage makes under its 30-second context: doRequest and
\* sendMediaMessage build their request with it, checkMessageExists queries
\* with it.  A call under the context returns "deadline" when the context
\* expires during it, and at once when it has expired before; a call outside
\* it may never return ("hang").
\* Mutant: the dedup query runs outside the context of the unit of work.
CtxBound_QueryUnbound(op) ==
    op \in {"searchContact", "createContact", "listConversations",
            "createConversation", "postMessage"}

CtxBound(op) ==
    op \in {"searchContact", "createContact", "listConversations",
            "createConversation", "dbQuery", "postMessage"}

Failed == {"err", "deadline", "hang"}

\* Where a failed call leaves the unit of work.
Ended(o) == IF o = "hang" THEN "hung" ELSE "done"

Orders == {"asc", "desc"}

NoCall == <<>>

Call(op, a, b, c) == [op |-> op, a |-> a, b |-> b, c |-> c]

-----------------------------------------------------------------------------
(* Pure helpers of chatwoot_service.go *)

RECURSIVE Reverse(_)
Reverse(s) == IF s = <<>> THEN <<>> ELSE Append(Reverse(Tail(s)), Head(s))

InOrder(s, ord) == IF ord = "asc" THEN s ELSE Reverse(s)

\* The elements of a finite set of ids as an ascending sequence.
RECURSIVE Ascending(_)
Ascending(S) ==
    IF S = {} THEN <<>>
    ELSE LET m == CHOOSE x \in S : \A y \in S : x <= y
         IN  <<m>> \o Ascending(S \ {m})

\* Desk answer to POST contacts/filter with phone_number equal_to "+<phone>".
FilterContacts(phone, ord) ==
    InOrder(Ascending({i \in DOMAIN contacts : contacts[i] = PlusPhone(phone)}),
            ord)

\* Desk answer to GET contacts/<id>/conversations: {id, status, inbox_id} of
\* each conversation of the contact.
ContactConversations(cid, ord) ==
    LET ids == InOrder(Ascending({i \in DOMAIN conversations :
                                    conversations[i].contact = cid}), ord)
    IN  [k \in DOMAIN ids |->
            [id |-> ids[k], status |-> conversations[ids[k]].status,
             inbox_id |-> conversations[ids[k]].inbox]]

\* Mutant: the payload test is off by one.
searchContact_OffByOne(payload) == IF Len(payload) > 1 THEN payload[1] ELSE 0

\* searchContact: the id of the first element of the payload, else 0.
searchContact(payload) == IF Len(payload) > 0 THEN payload[1] ELSE 0

\* Mutant: the loop keeps the last match instead of returning the first.
RECURSIVE findOpenConversation_Last(_)
findOpenConversation_Last(payload) ==
    IF payload = <<>> THEN 0
    ELSE IF findOpenConversation_Last(Tail(payload)) > 0
         THEN findOpenConversation_Last(Tail(payload))
         ELSE IF /\ Head(payload).inbox_id = InboxID
                 /\ Head(payload).status # "resolved"
              THEN Head(payload).id
              ELSE 0

\* Mutant: the loop tests the status only, not the inbox.
RECURSIVE findOpenConversation_AnyInbox(_)
findOpenConversation_AnyInbox(payload) ==
    IF payload = <<>> THEN 0
    ELSE IF Head(payload).status # "resolved"
         THEN Head(payload).id
         ELSE findOpenConversation_AnyInbox(Tail(payload))

\* findOpenConversation: the loop over result.Payload.
RECURSIVE findOpenConversation(_)
findOpenConversation(payload) ==
    IF payload = <<>> THEN 0
    ELSE IF /\ Head(payload).inbox_id = InboxID
            /\ Head(payload).status # "resolved"
         THEN Head(payload).id
         ELSE findOpenConversation(Tail(payload))

\* Mutant: the lookup reports a message present only when more than one row
\* is counted.
checkMessageExists_MoreThanOne(conversationID, sourceID, queryFails) ==
    LET Answer(exists, err, queried) ==
            [checked |-> TRUE, exists |-> exists, err |-> err,
             queried |-> queried]
        count == Cardinality({m \in messages : /\ m.conv = conversationID
                                                /\ m.source_id = sourceID})
    IN  IF ~dbConnected THEN Answer(FALSE, FALSE, FALSE)
        ELSE IF conversationID <= 0 THEN Answer(FALSE, FALSE, FALSE)
        ELSE IF queryFails THEN Answer(FALSE, TRUE, TRUE)
        ELSE Answer(count > 1, FALSE, TRUE)

\* checkMessageExists: (exists, err) for a lookup of (conversationID, sourceID).
checkMessageExists(conversationID, sourceID, queryFails) ==
    LET Answer(exists, err, queried) ==
            [checked |-> TRUE, exists |-> exists, err |-> err,
             queried |-> queried]
        count == Cardinality({m \in messages : /\ m.conv = conversationID
                                                /\ m.source_id = sourceID})
    IN  IF ~dbConnected THEN Answer(FALSE, FALSE, FALSE)
        ELSE IF conversationID <= 0 THEN Answer(FALSE, FALSE, FALSE)
        ELSE IF queryFails THEN Answer(FALSE, TRUE, TRUE)
        ELSE Answer(count > 0, FALSE, TRUE)

\* Mutant: a failed lookup skips the send (fail closed).
GuardSkips_FailClosed(r) == r.err \/ r.exists

\* sendMessage / sendMediaMessage: the branch taken on the guard's answer.
GuardSkips(r) == ~r.err /\ r.exists

\* extractMessageText (lines 846-890).  The fixed parts of the placeholders
\* are one element each.
extractMessageText(m) ==
    LET c == m.Message
    IN  IF c.Conversation # <<>> THEN c.Conversation
        ELSE IF c.kind \in {"image", "video"} /\ c.Caption # <<>> THEN c.Caption
        ELSE IF c.kind = "document" /\ c.Caption # <<>> THEN c.Caption
        ELSE IF c.kind = "document" /\ c.FileName # <<>>
        THEN <<"[Documento: ">> \o c.FileName \o <<"]">>
        ELSE IF c.kind = "contact"
        THEN <<"Contato:\nNome: ">> \o c.DisplayName \o <<"\nTelefone: ">>
             \o c.waid
        ELSE IF c.kind = "reaction" THEN <<"[Reação: ">> \o c.Text \o <<"]">>
        ELSE <<>>

\* base64.StdEncoding.DecodeString returns no error (line 227), over the
\* payloads of the model: groups of four characters of the alphabet.
DecodeStringOk(b) ==
    Len(b) % 4 = 0 /\ \A i \in DOMAIN b : b[i] \in {"Q", "="}

\* Mutant: every forwarded message is typed "incoming".
messageType_AlwaysIncoming(isFromMe) == "incoming"

\* message_type by origin; the call's third field is <<message_type, path,
\* private>>.
messageType(isFromMe) == IF isFromMe THEN "outgoing" ELSE "incoming"

pushNameOf(m) ==
    IF m.PushName = <<>> THEN extractPhone(m.RemoteJid) ELSE m.PushName

-----------------------------------------------------------------------------
(* Inbound half: one unit of work per HandleMessage call *)

\* The context of the unit of work has expired.
Expired(p) == \E i \in DOMAIN resp[p] : resp[p][i] = "deadline"

\* The ways the next call op of unit p can return, env being the answers the
\* desk and the store give while the context lasts.
CallOutcomes(p, op, env) ==
    IF CtxBound(op)
    THEN (IF Expired(p) THEN {"deadline"} ELSE env \cup {"deadline"})
    ELSE env \cup {"hang"}

NoMsg == [RemoteJid |-> <<>>, Id |-> <<>>, FromMe |-> FALSE, PushName |-> <<>>,
          Message |-> NoContent, age |-> 0]

NoHistory == [ids |-> {}, creates |-> 0, n |-> 0]

\* A findOrCreateContact call for phone returned id; created tells whether it
\* issued the create call.
Resolved(phone, id, created) ==
    [okContact EXCEPT ![phone] =
        [ids |-> @.ids \cup {id},
         creates |-> @.creates + (IF created THEN 1 ELSE 0),
         n |-> @.n + 1]]

\* Mutant: a message without payload is sent as text even when its text is
\* empty.
AfterConversation_PostsEmptyText(m) ==
    IF m.Message.Base64 # <<>>
    THEN (IF DecodeStringOk(m.Message.Base64) THEN "checkMessageExists"
          ELSE "done")
    ELSE "checkMessageExists"

\* Lines 218-255: what HandleMessage does once the conversation is known.
AfterConversation(m) ==
    IF m.Message.Base64 # <<>>
    THEN (IF DecodeStringOk(m.Message.Base64) THEN "checkMessageExists"
          ELSE "done")
    ELSE IF extractMessageText(m) = <<>> THEN "done"
    ELSE "checkMessageExists"

\* HandleMessage up to and including searchContact (lines 143-190, 328-373).
HandleMessage(p, inputs, limit, env) ==
    /\ pc[p] = "idle"
    /\ started < limit
    /\ started' = started + 1
    /\ \E m \in inputs, o \in CallOutcomes(p, "searchContact", env), ord \in Orders :
         LET phone == extractPhone(m.RemoteJid)
             payload == IF o = "ok" THEN FilterContacts(phone, ord) ELSE <<>>
             id == searchContact(payload)
         IN  /\ msg' = [msg EXCEPT ![p] = m]
             /\ IF phone = <<>>
                THEN /\ pc' = [pc EXCEPT ![p] = "done"]
                     /\ UNCHANGED <<calls, resp, found, contactID, okContact>>
                ELSE /\ calls' = [calls EXCEPT ![p] =
                            <<Call("searchContact", PlusPhone(phone), 0, 0)>>]
                     /\ resp' = [resp EXCEPT ![p] = <<o>>]
                     /\ found' = [found EXCEPT ![p] = payload]
                     /\ IF o \in Failed
                        THEN /\ pc' = [pc EXCEPT ![p] = Ended(o)]
                             /\ UNCHANGED <<contactID, okContact>>
                        ELSE IF id > 0
                        THEN /\ contactID' = [contactID EXCEPT ![p] = id]
                             /\ okContact' = Resolved(phone, id, FALSE)
                             /\ pc' = [pc EXCEPT ![p] = "findOrCreateConversation"]
                        ELSE /\ pc' = [pc EXCEPT ![p] = "createContact"]
                             /\ UNCHANGED <<contactID, okContact>>
    /\ UNCHANGED <<dbConnected, contacts, conversations, messages, convID,
                   listed, guard, out>>

\* The two envelopes in which a desk returns a created contact:
\* {"payload": {"id": n, ...}} and {"payload": {"contact": {"id": n, ...}}}.
Envelopes == {"payload.id", "payload.contact.id"}

\* result.Payload.ID after decoding the answer into
\* chatwootContactCreateResponse (lines 122-125, 398-406): the id when it is
\* at payload.id, the zero value otherwise.
DecodedContactID(envelope, id) == IF envelope = "payload.id" THEN id ELSE 0

\* createContact (lines 375-419) and the contactID check of lines 186-198.
\* A 2xx answer is recorded in resp by its envelope.
CreateContact(p, env) ==
    /\ pc[p] = "createContact"
    /\ \E o \in CallOutcomes(p, "createContact", env), envelope \in Envelopes :
         LET m == msg[p]
             phone == extractPhone(m.RemoteJid)
             newID == DecodedContactID(envelope, Len(contacts) + 1)
         IN  /\ calls' = [calls EXCEPT ![p] = Append(@,
                    Call("createContact", pushNameOf(m), PlusPhone(phone),
                         m.RemoteJid))]
             /\ resp' = [resp EXCEPT ![p] =
                    Append(@, IF o = "ok" THEN envelope ELSE o)]
             /\ IF o = "ok"
                THEN /\ contacts' = Append(contacts, PlusPhone(phone))
                     /\ IF newID > 0
                        THEN /\ contactID' = [contactID EXCEPT ![p] = newID]
                             /\ okContact' = Resolved(phone, newID, TRUE)
                             /\ pc' = [pc EXCEPT ![p] = "findOrCreateConversation"]
                        ELSE /\ pc' = [pc EXCEPT ![p] = "done"]
                             /\ UNCHANGED <<contactID, okContact>>
                ELSE /\ pc' = [pc EXCEPT ![p] = Ended(o)]
                     /\ UNCHANGED <<contacts, contactID, okContact>>
    /\ UNCHANGED <<dbConnected, conversations, messages, started, msg, convID,
                   found, listed, guard, out>>

\* findOrCreateConversation up to findOpenConversation (lines 423-445, 465-510).
FindOrCreateConversation(p, env) ==
    /\ pc[p] = "findOrCreateConversation"
    /\ contactID[p] > 0
    /\ \E o \in CallOutcomes(p, "listConversations", env), ord \in Orders :
         LET payload == IF o = "ok"
                        THEN ContactConversations(contactID[p], ord)
                        ELSE <<>>
             id == findOpenConversation(payload)
         IN  /\ calls' = [calls EXCEPT ![p] = Append(@,
                    Call("listConversations", contactID[p], o, 0))]
             /\ resp' = [resp EXCEPT ![p] = Append(@, o)]
             /\ listed' = [listed EXCEPT ![p] = payload]
             /\ IF o \in Failed
                THEN /\ pc' = [pc EXCEPT ![p] = Ended(o)]
                     /\ UNCHANGED convID
                ELSE IF id > 0
                THEN /\ convID' = [convID EXCEPT ![p] = id]
                     /\ pc' = [pc EXCEPT ![p] = AfterConversation(msg[p])]
                ELSE /\ pc' = [pc EXCEPT ![p] = "createConversation"]
                     /\ UNCHANGED convID
    /\ UNCHANGED <<dbConnected, contacts, conversations, messages, started, msg,
                   contactID, found, guard, okContact, out>>

\* Mutant: a failed create is not noticed; the call goes on to the send.
CreateConversation_IgnoresError(p, env) ==
    /\ pc[p] = "createConversation"
    /\ \E o \in CallOutcomes(p, "createConversation", env) :
         LET newID == Len(conversations) + 1
         IN  /\ calls' = [calls EXCEPT ![p] = Append(@,
                    Call("createConversation", contactID[p], InboxID, 0))]
             /\ resp' = [resp EXCEPT ![p] = Append(@, o)]
             /\ pc' = [pc EXCEPT ![p] = AfterConversation(msg[p])]
             /\ IF o = "ok"
                THEN /\ conversations' = Append(conversations,
                            [contact |-> contactID[p], inbox |-> InboxID,
                             status |-> "open"])
                     /\ convID' = [convID EXCEPT ![p] = newID]
                ELSE UNCHANGED <<conversations, convID>>
    /\ UNCHANGED <<dbConnected, contacts, messages, started, msg, contactID,
                   found, listed, guard, okContact, out>>

\* The bodies of a 2xx answer to the create-conversation call: with the
\* conversation's id at "id", or without one.
ConversationBodies == {"id", "no id"}

\* result.ID after decoding the answer into
\* chatwootConversationCreateResponse (lines 539-550).
DecodedConversationID(body, id) == IF body = "id" THEN id ELSE 0

\* Mutant: the id of the created conversation is used unchecked.
CreateConversation_SkipsIdCheck(p, env) ==
    /\ pc[p] = "createConversation"
    /\ \E o \in CallOutcomes(p, "createConversation", env),
          body \in ConversationBodies :
         LET newID == DecodedConversationID(body, Len(conversations) + 1)
         IN  /\ calls' = [calls EXCEPT ![p] = Append(@,
                    Call("createConversation", contactID[p], InboxID, 0))]
             /\ resp' = [resp EXCEPT ![p] =
                    Append(@, IF o = "ok" /\ newID = 0 THEN body ELSE o)]
             /\ IF o = "ok"
                THEN /\ conversations' = Append(conversations,
                            [contact |-> contactID[p], inbox |-> InboxID,
                             status |-> "open"])
                     /\ convID' = [convID EXCEPT ![p] = newID]
                     /\ pc' = [pc EXCEPT ![p] =
                            AfterConversation(msg[p])]
                ELSE /\ pc' = [pc EXCEPT ![p] = Ended(o)]
                     /\ UNCHANGED <<conversations, convID>>
    /\ UNCHANGED <<dbConnected, contacts, messages, started, msg, contactID,
                   found, listed, guard, okContact, out>>

\* createConversation (lines 512-551) and the check of lines 202-214.  A
\* 2xx answer without an id is recorded in resp as "no id".
CreateConversation(p, env) ==
    /\ pc[p] = "createConversation"
    /\ \E o \in CallOutcomes(p, "createConversation", env),
          body \in ConversationBodies :
         LET newID == DecodedConversationID(body, Len(conversations) + 1)
         IN  /\ calls' = [calls EXCEPT ![p] = Append(@,
                    Call("createConversation", contactID[p], InboxID, 0))]
             /\ resp' = [resp EXCEPT ![p] =
                    Append(@, IF o = "ok" /\ newID = 0 THEN body ELSE o)]
             /\ IF o = "ok"
                THEN /\ conversations' = Append(conversations,
                            [contact |-> contactID[p], inbox |-> InboxID,
                             status |-> "open"])
                     /\ convID' = [convID EXCEPT ![p] = newID]
                     /\ pc' = [pc EXCEPT ![p] =
                            IF newID > 0 THEN AfterConversation(msg[p])
                            ELSE "done"]
                ELSE /\ pc' = [pc EXCEPT ![p] = Ended(o)]
                     /\ UNCHANGED <<conversations, convID>>
    /\ UNCHANGED <<dbConnected, contacts, messages, started, msg, contactID,
                   found, listed, guard, okContact, out>>

\* Mutant: the guard records the tag it looked up and did not find.
SendMessageCheck_RecordsLookup(p, env) ==
    /\ pc[p] = "checkMessageExists"
    /\ \E o \in CallOutcomes(p, "dbQuery", env) \ {"http4xx"} :
         LET sourceID == SourceID(msg[p].Id)
             queryFails == o # "ok"
             r == checkMessageExists(convID[p], sourceID, queryFails)
         IN  /\ (~r.queried => ~queryFails)
             /\ messages' = IF r.queried /\ ~r.err /\ ~r.exists
                            THEN messages \cup {[conv |-> convID[p],
                                                 source_id |-> sourceID,
                                                 n |-> 1]}
                            ELSE messages
             /\ guard' = [guard EXCEPT ![p] = r]
             /\ calls' = [calls EXCEPT ![p] =
                    IF r.queried
                    THEN Append(@, Call("dbQuery", convID[p], sourceID, 0))
                    ELSE @]
             /\ resp' = [resp EXCEPT ![p] = IF r.queried THEN Append(@, o) ELSE @]
             /\ pc' = [pc EXCEPT ![p] =
                    IF o = "hang" THEN "hung"
                    ELSE IF GuardSkips(r) THEN "done" ELSE "post"]
    /\ UNCHANGED <<dbConnected, contacts, conversations, started, msg,
                   contactID, convID, found, listed, okContact, out>>

\* sendMessage / sendMediaMessage up to the duplicate check
\* (lines 556-581 and 621-654).
SendMessageCheck(p, env) ==
    /\ pc[p] = "checkMessageExists"
    /\ \E o \in CallOutcomes(p, "dbQuery", env) \ {"http4xx"} :
         LET sourceID == SourceID(msg[p].Id)
             queryFails == o # "ok"
             r == checkMessageExists(convID[p], sourceID, queryFails)
         IN  /\ (~r.queried => ~queryFails)
             /\ guard' = [guard EXCEPT ![p] = r]
             /\ calls' = [calls EXCEPT ![p] =
                    IF r.queried
                    THEN Append(@, Call("dbQuery", convID[p], sourceID, 0))
                    ELSE @]
             /\ resp' = [resp EXCEPT ![p] = IF r.queried THEN Append(@, o) ELSE @]
             /\ pc' = [pc EXCEPT ![p] =
                    IF o = "hang" THEN "hung"
                    ELSE IF GuardSkips(r) THEN "done" ELSE "post"]
    /\ UNCHANGED <<dbConnected, contacts, conversations, messages, started, msg,
                   contactID, convID, found, listed, okContact, out>>

\* Mutant: the POST is an atomic insert-if-absent on (conversation, tag).
SendMessagePost_IfAbsent(p, env) ==
    /\ pc[p] = "post"
    /\ \E o \in CallOutcomes(p, "postMessage", env) :
         LET m == msg[p]
             sourceID == SourceID(m.Id)
             path == IF m.Message.Base64 # <<>> THEN "media" ELSE "text"
             n == Cardinality({x \in messages :
                                 x.conv = convID[p] /\ x.source_id = sourceID})
         IN  /\ calls' = [calls EXCEPT ![p] =
                    IF n > 0 THEN @
                    ELSE Append(@, Call("postMessage", convID[p], sourceID,
                                        <<messageType(m.FromMe), path, FALSE>>))]
             /\ resp' = [resp EXCEPT ![p] = IF n > 0 THEN @ ELSE Append(@, o)]
             /\ messages' = IF o = "ok" /\ n = 0
                            THEN messages \cup
                                 {[conv |-> convID[p], source_id |-> sourceID,
                                   n |-> n + 1]}
                            ELSE messages
             /\ pc' = [pc EXCEPT ![p] = IF n > 0 THEN "done" ELSE Ended(o)]
    /\ UNCHANGED <<dbConnected, contacts, conversations, started, msg, contactID,
                   convID, found, listed, guard, okContact, out>>

\* Mutant: a POST that fails is issued once more.
SendMessagePost_RetryOnce(p, env) ==
    /\ pc[p] = "post"
    /\ \E o \in CallOutcomes(p, "postMessage", env) :
         LET m == msg[p]
             sourceID == SourceID(m.Id)
             path == IF m.Message.Base64 # <<>> THEN "media" ELSE "text"
             n == Cardinality({x \in messages :
                                 x.conv = convID[p] /\ x.source_id = sourceID})
             first == \A i \in DOMAIN calls[p] : calls[p][i].op # "postMessage"
         IN  /\ calls' = [calls EXCEPT ![p] = Append(@,
                    Call("postMessage", convID[p], sourceID,
                         <<messageType(m.FromMe), path, FALSE>>))]
             /\ resp' = [resp EXCEPT ![p] = Append(@, o)]
             /\ messages' = IF o = "ok"
                            THEN messages \cup
                                 {[conv |-> convID[p], source_id |-> sourceID,
                                   n |-> n + 1]}
                            ELSE messages
             /\ pc' = [pc EXCEPT ![p] =
                    IF o # "ok" /\ first THEN "post" ELSE Ended(o)]
    /\ UNCHANGED <<dbConnected, contacts, conversations, started, msg, contactID,
                   convID, found, listed, guard, okContact, out>>

\* The POST of sendMessage (lines 583-617) or sendMediaMessage (656-716).
SendMessagePost(p, env) ==
    /\ pc[p] = "post"
    /\ \E o \in CallOutcomes(p, "postMessage", env) :
         LET m == msg[p]
             sourceID == SourceID(m.Id)
             path == IF m.Message.Base64 # <<>> THEN "media" ELSE "text"
             n == Cardinality({x \in messages :
                                 x.conv = convID[p] /\ x.source_id = sourceID})
         IN  /\ calls' = [calls EXCEPT ![p] = Append(@,
                    Call("postMessage", convID[p], sourceID,
                         <<messageType(m.FromMe), path, FALSE>>))]
             /\ resp' = [resp EXCEPT ![p] = Append(@, o)]
             /\ messages' = IF o = "ok"
                            THEN messages \cup
                                 {[conv |-> convID[p], source_id |-> sourceID,
                                   n |-> n + 1]}
                            ELSE messages
             /\ pc' = [pc EXCEPT ![p] = Ended(o)]
    /\ UNCHANGED <<dbConnected, contacts, conversations, started, msg, contactID,
                   convID, found, listed, guard, okContact, out>>

NoGuard ==
    [checked |-> FALSE, exists |-> FALSE, err |-> FALSE, queried |-> FALSE]

\* HandleMessage returns; the unit of work is over.
Return(p) ==
    /\ pc[p] = "done"
    /\ pc' = [pc EXCEPT ![p] = "idle"]
    /\ msg' = [msg EXCEPT ![p] = NoMsg]
    /\ contactID' = [contactID EXCEPT ![p] = 0]
    /\ convID' = [convID EXCEPT ![p] = 0]
    /\ found' = [found EXCEPT ![p] = <<>>]
    /\ listed' = [listed EXCEPT ![p] = <<>>]
    /\ guard' = [guard EXCEPT ![p] = NoGuard]
    /\ calls' = [calls EXCEPT ![p] = NoCall]
    /\ resp' = [resp EXCEPT ![p] = <<>>]
    /\ UNCHANGED <<dbConnected, contacts, conversations, messages, started,
                   okContact, out>>

\* A desk agent of the tenant's inbox resolves a conversation.
ResolveConversation(cv) ==
    /\ cv \in DOMAIN conversations
    /\ conversations[cv].inbox = InboxID
    /\ conversations[cv].status # "resolved"
    /\ conversations' = [conversations EXCEPT ![cv].status = "resolved"]
    /\ UNCHANGED <<dbConnected, contacts, messages, started, pc, msg, contactID,
                   convID, found, listed, guard, calls, resp, okContact, out>>

-----------------------------------------------------------------------------
(* Initial states *)

NoOut == [handler |-> "none"]

Conv(c, i, s) == [contact |-> c, inbox |-> i, status |-> s]

Stored(c, id) == [conv |-> c, source_id |-> SourceID(id), n |-> 1]

\* Desk contents when the bridge starts: an empty desk, or the user's contact
\* with conversations and messages forwarded before the bridge restarted.
InitialDesks ==
    { [contacts |-> <<>>, conversations |-> <<>>, messages |-> {}],
      [contacts |-> <<PlusPhone(extractPhone(UserJid))>>,
       conversations |-> <<Conv(1, InboxID, "resolved"),
                           Conv(1, OtherInbox, "open")>>,
       messages |-> {Stored(1, <<"A">>)}],
      [contacts |-> <<PlusPhone(extractPhone(UserJid))>>,
       conversations |-> <<Conv(1, OtherInbox, "open"),
                           Conv(1, InboxID, "pending"),
                           Conv(1, InboxID, "open")>>,
       messages |-> {Stored(3, <<"A">>)}] }

Init ==
    /\ dbConnected \in BOOLEAN
    /\ \E d \in InitialDesks :
         /\ contacts = d.contacts
         /\ conversations = d.conversations
         /\ messages = d.messages
    /\ started = 0
    /\ pc = [p \in Procs |-> "idle"]
    /\ msg = [p \in Procs |-> NoMsg]
    /\ contactID = [p \in Procs |-> 0]
    /\ convID = [p \in Procs |-> 0]
    /\ found = [p \in Procs |-> <<>>]
    /\ listed = [p \in Procs |-> <<>>]
    /\ guard = [p \in Procs |-> NoGuard]
    /\ calls = [p \in Procs |-> NoCall]
    /\ resp = [p \in Procs |-> <<>>]
    /\ okContact = [ph \in Phones |-> NoHistory]
    /\ out = NoOut

\* Units of work handled one after another, over every kind of message.
Next ==
    \/ HandleMessage(1, Msgs, MaxEvents, Outcomes)
    \/ CreateContact(1, Outcomes)
    \/ FindOrCreateConversation(1, Outcomes)
    \/ CreateConversation(1, Outcomes)
    \/ SendMessageCheck(1, Outcomes)
    \/ SendMessagePost(1, Outcomes)
    \/ Return(1)
    \/ \E cv \in DOMAIN conversations : ResolveConversation(cv)

Spec == Init /\ [][Next]_vars

\* Two units of work, one per process, handled concurrently (no lock or
\* queue orders them), over fresh text and media messages of the user chat.
\* While its context lasts, the desk answers every call of a racing unit,
\* with a 2xx or a non-2xx status.
RaceOutcomes == {"ok", "http4xx"}

RaceMsgs ==
    {m \in Msgs : /\ m.RemoteJid = UserJid
                  /\ ~m.FromMe
                  /\ m.PushName = <<>>
                  /\ m.age = 0
                  /\ m.Message # NoContent}

NextConc ==
    \/ \E p \in Procs :
         \* the processes are interchangeable: they start in order
         /\ \A q \in Procs : q < p => pc[q] # "idle"
         /\ HandleMessage(p, RaceMsgs, Cardinality(Procs), RaceOutcomes)
    \/ \E p \in Procs : CreateContact(p, RaceOutcomes)
    \/ \E p \in Procs : FindOrCreateConversation(p, RaceOutcomes)
    \/ \E p \in Procs : CreateConversation(p, RaceOutcomes)
    \/ \E p \in Procs : SendMessageCheck(p, RaceOutcomes)
    \/ \E p \in Procs : SendMessagePost(p, RaceOutcomes)

SpecConc == Init /\ [][NextConc]_vars

\* One unit of work at a time over the messages of the user chat.  A started
\* unit keeps running: HandleMessage is straight-line code of one goroutine,
\* and each of its steps is one call that returns.
NextLive ==
    \/ HandleMessage(1, RaceMsgs, MaxEvents, Outcomes)
    \/ CreateContact(1, Outcomes)
    \/ FindOrCreateConversation(1, Outcomes)
    \/ CreateConversation(1, Outcomes)
    \/ SendMessageCheck(1, Outcomes)
    \/ SendMessagePost(1, Outcomes)
    \/ Return(1)

SpecLive ==
    /\ Init
    /\ [][NextLive]_vars
    /\ WF_vars(CreateContact(1, Outcomes))
    /\ WF_vars(FindOrCreateConversation(1, Outcomes))
    /\ WF_vars(CreateConversation(1, Outcomes))
    /\ WF_vars(SendMessageCheck(1, Outcomes))
    /\ WF_vars(SendMessagePost(1, Outcomes))

\* One unit of work at a time over messages of the user chat of every
\* content.
DispatchMsgs ==
    [RemoteJid : {UserJid}, Id : {<<"A">>}, FromMe : BOOLEAN,
     PushName : {<<>>}, Message : DispatchContents, age : {0}]

NextDispatch ==
    \/ HandleMessage(1, DispatchMsgs, MaxEvents, Outcomes)
    \/ CreateContact(1, Outcomes)
    \/ FindOrCreateConversation(1, Outcomes)
    \/ CreateConversation(1, Outcomes)
    \/ SendMessageCheck(1, Outcomes)
    \/ SendMessagePost(1, Outcomes)
    \/ Return(1)

SpecDispatch == Init /\ [][NextDispatch]_vars

\* Calls of HandleMessage as they arrive: entry tells whether
\* env.Env.ChatwootEnabled is off ("disabled"), messageData is nil ("nil
\* data"), messageData.Key is nil ("nil key"), or none of these ("ok").  A
\* nil part has empty fields; the JIDs "@g.us" and ":7@g.us" have nothing
\* before "@" and ":".
EntryEvents ==
    LET text == MessageOf(<<>>, <<"h", "i">>, "other", <<>>, <<>>)
        Event(jid, id, content, entry) ==
            [RemoteJid |-> jid, Id |-> id, FromMe |-> FALSE, PushName |-> <<>>,
             Message |-> content, age |-> 0, entry |-> entry]
    IN  { Event(j, <<"A">>, text, e) :
            j \in {UserJid, <<>>, <<"@", "g", ".", "u", "s">>,
                   <<":", "7", "@", "g", ".", "u", "s">>},
            e \in {"ok", "disabled"} }
        \cup { Event(<<>>, <<>>, NoContent, "nil data"),
               Event(<<>>, <<>>, text, "nil key") }

\* Mutant: the enabled flag is not consulted.
HandleEvent_IgnoresEnabled(p, events, limit, env) ==
    \E e \in events :
        IF e.entry \in {"nil data", "nil key"}
        THEN /\ pc[p] = "idle"
             /\ started < limit
             /\ started' = started + 1
             /\ msg' = [msg EXCEPT ![p] = e]
             /\ pc' = [pc EXCEPT ![p] = "done"]
             /\ UNCHANGED <<dbConnected, contacts, conversations, messages,
                            contactID, convID, found, listed, guard, calls,
                            resp, okContact, out>>
        ELSE HandleMessage(p, {e}, limit, env)

\* HandleMessage from its first line: the returns of lines 145-150, then
\* the rest.
HandleEvent(p, events, limit, env) ==
    \E e \in events :
        IF e.entry # "ok"
        THEN /\ pc[p] = "idle"
             /\ started < limit
             /\ started' = started + 1
             /\ msg' = [msg EXCEPT ![p] = e]
             /\ pc' = [pc EXCEPT ![p] = "done"]
             /\ UNCHANGED <<dbConnected, contacts, conversations, messages,
                            contactID, convID, found, listed, guard, calls,
                            resp, okContact, out>>
        ELSE HandleMessage(p, {e}, limit, env)

NextEntry ==
    \/ HandleEvent(1, EntryEvents, MaxEvents, Outcomes)
    \/ CreateContact(1, Outcomes)
    \/ FindOrCreateConversation(1, Outcomes)
    \/ CreateConversation(1, Outcomes)
    \/ SendMessageCheck(1, Outcomes)
    \/ SendMessagePost(1, Outcomes)
    \/ Return(1)

SpecEntry == Init /\ [][NextEntry]_vars

-----------------------------------------------------------------------------
(* Outbound half: desk webhook requests *)

MaxAttachments == 2

\* The three places a request names its peer, with a different number in
\* each: phone "+551", contact-inbox source id "552@s.whatsapp.net", sender
\* identifier "553@s.whatsapp.net".
PlusNumber == <<"+", "5", "5", "1">>

PeerJid ==
    <<"5", "5", "2", "@", "s", ".", "w", "h", "a", "t", "s", "a", "p", "p",
      ".", "n", "e", "t">>

IdentJid ==
    <<"5", "5", "3", "@", "s", ".", "w", "h", "a", "t", "s", "a", "p", "p",
      ".", "n", "e", "t">>

\* Contents: "**hi**", and a text made of one emoji (written by its code point).

BoldHi == <<"*", "*", "h", "i", "*", "*">>

AgentName == <<"A", "n", "a">>

NetSuffix ==
    <<"@", "s", ".", "w", "h", "a", "t", "s", "a", "p", "p", ".", "n", "e",
      "t">>

ThumbsUp == <<"U+1F44D">>

FileTypes == {"image/png", "audio/ogg", "application/pdf"}

\* An attachment: its file_type and its data_url (one URL per file type).
Attachment(ft, hasUrl) ==
    [FileType |-> ft, DataURL |-> IF hasUrl THEN <<"u", ":", ft>> ELSE <<>>]

Lists(S) == UNION {[1..n -> S] : n \in 0..MaxAttachments}

AttLists == Lists({Attachment(ft, TRUE) : ft \in FileTypes})

\* conversation.messages of the request: absent, or the message of the event
\* with its source_id and attachments.
WebhookMessages(tags, atts) ==
    {<<>>} \cup {<<[SourceID |-> t, Attachments |-> a]>> : t \in tags, a \in atts}

Webhooks(events, privates, ctypes, convs, deleted, idents, names, msgs) ==
    [Event : events, MessageType : {"outgoing", "incoming"},
     Private : BOOLEAN, IsPrivate : privates,
     Content : {<<>>, BoldHi}, ContentType : ctypes,
     ConversationID : convs, Deleted : deleted,
     Identifier : idents, PhoneNumber : {<<>>, PlusNumber},
     SourceID : {<<>>, PeerJid}, SenderName : names, Messages : msgs,
     Attachments : {<<>>}, MessageSourceID : {<<>>}, InReplyTo : {<<>>}]

\* The requests ws with the event's own attachments, source_id and
\* in_reply_to_external_id set; only message events carry attachments.
WithMessage(ws, atts, tags, replies) ==
    UNION { { [w EXCEPT !.Attachments = a, !.MessageSourceID = t,
                        !.InReplyTo = r] :
                a \in {x \in atts : x = <<>> \/ w.Event = "message_created"},
                t \in tags, r \in replies } : w \in ws }

\* Requests as ChatwootWebhookBody of chatwoot.go decodes them.
BodyWebhooks ==
    Webhooks({"message_created", "message_updated", "conversation_typing_on"},
             {FALSE}, {"text", "input_select"}, {0, 5}, BOOLEAN, {<<>>},
             {<<>>, AgentName},
             WebhookMessages({<<>>, SourceID(<<"A">>)}, {<<>>}))

\* Requests as dto.ChatwootWebhookRequest of part_007 decodes them.
RequestWebhooks ==
    Webhooks({"message_created", "message_updated", "conversation_typing_on",
              "conversation_typing_off"},
             BOOLEAN, {"text"}, {5}, {FALSE}, {<<>>, IdentJid}, {<<>>},
             WebhookMessages({<<>>, SourceID(<<"A">>)}, AttLists))

\* strings.ReplaceAll(s, old, new) for a one-character old.
RECURSIVE RemoveChar(_, _)
RemoveChar(s, c) ==
    IF s = <<>> THEN <<>>
    ELSE IF Head(s) = c THEN RemoveChar(Tail(s), c)
    ELSE <<Head(s)>> \o RemoveChar(Tail(s), c)

\* strings.ReplaceAll(content, "**", "*")
RECURSIVE convertChatwootToWhatsAppFormatting(_)
convertChatwootToWhatsAppFormatting(content) ==
    IF Len(content) < 2 THEN content
    ELSE IF content[1] = "*" /\ content[2] = "*"
    THEN <<"*">> \o convertChatwootToWhatsAppFormatting(SubSeq(content, 3, Len(content)))
    ELSE <<Head(content)>> \o convertChatwootToWhatsAppFormatting(Tail(content))

Presence(jid, state, ok) == [cap |-> "ChatPresence", jid |-> jid, arg |-> state, ok |-> ok]

Send(cap, jid, arg, ok) == [cap |-> cap, jid |-> jid, arg |-> arg, ok |-> ok]

\* known: the tenant directory holds an instance of that name.
Handled(handler, w, instance, known, reply, cs) ==
    [handler |-> handler, webhook |-> w, instance |-> instance,
     known |-> known, reply |-> reply, calls |-> cs]

\* chatwoot.go, lines 166-205: the number handed to numberToJid.
cleanNumber(w) ==
    LET chatId == IF w.PhoneNumber # <<>> THEN w.PhoneNumber ELSE w.SourceID
    IN  RemoveChar(RemoveChar(RemoveChar(RemoveChar(RemoveChar(
            SplitFirst(chatId, "@"), "+"), " "), "-"), "("), ")")

\* chatwoot.go, lines 207-216: the text handed to SendText.
formatText(w) ==
    LET messageText == convertChatwootToWhatsAppFormatting(w.Content)
    IN  IF w.SenderName # <<>>
        THEN <<"*">> \o w.SenderName \o <<":", "*", "\n">> \o messageText
        ELSE messageText

\* chatwoot.go, handleTextMessage (lines 160-293): reply and capability calls.
handleTextMessage(w, jidOk, composingOk, sendOk) ==
    LET jid == cleanNumber(w)
        composing == Presence(jid, "composing", composingOk)
        text == Send("SendText", jid, formatText(w), sendOk)
    IN  IF w.PhoneNumber = <<>> /\ w.SourceID = <<>>
        THEN [reply |-> "400", calls |-> <<>>]
        ELSE IF ~jidOk THEN [reply |-> "400", calls |-> <<>>]
        ELSE IF ~sendOk
        THEN [reply |-> "500", calls |-> <<composing, text>>]
        ELSE [reply |-> "200",
              calls |-> <<composing, text, Presence(jid, "paused", TRUE)>>]

\* chatwoot.go, ReceiveWebhook (lines 66-158).
ReceiveWebhookBody(w, instance, jidOk, composingOk, sendOk) ==
    IF instance = <<>> THEN [reply |-> "400", calls |-> <<>>]
    ELSE IF w.ConversationID = 0 \/ w.Private
    THEN [reply |-> "ignored", calls |-> <<>>]
    ELSE IF w.Event = "message_updated" /\ ~w.Deleted
    THEN [reply |-> "ignored", calls |-> <<>>]
    ELSE IF w.Event # "message_created" \/ w.MessageType # "outgoing"
    THEN [reply |-> "ignored", calls |-> <<>>]
    ELSE IF /\ Len(w.Messages) > 0
            /\ w.Messages[1].SourceID # <<>>
            /\ HasPrefix(w.Messages[1].SourceID, WAID)
    THEN [reply |-> "ignored", calls |-> <<>>]
    ELSE IF w.ContentType = "text"
    THEN handleTextMessage(w, jidOk, composingOk, sendOk)
    ELSE [reply |-> "ignored", calls |-> <<>>]

Instances == {<<>>, <<"i", "1">>}

ReceiveWebhook ==
    /\ out = NoOut
    /\ \E w \in BodyWebhooks, instance \in Instances, instanceKnown \in BOOLEAN,
          jidOk \in BOOLEAN, composingOk \in BOOLEAN, sendOk \in BOOLEAN :
         LET r == ReceiveWebhookBody(w, instance, jidOk, composingOk, sendOk)
         IN  out' = Handled("chatwoot.go", w, instance, instanceKnown, r.reply,
                            r.calls)
    /\ UNCHANGED inVars

\* part_007, getJIDFromWebhook (lines 242-259): the identifier handed to
\* types.ParseJID, empty when no candidate is set.
getJIDFromWebhook(w) ==
    IF w.Identifier # <<>> THEN w.Identifier
    ELSE IF w.SourceID # <<>> THEN w.SourceID
    ELSE IF w.PhoneNumber # <<>>
    THEN (IF Head(w.PhoneNumber) = "+" THEN Tail(w.PhoneNumber)
          ELSE w.PhoneNumber) \o NetSuffix
    ELSE <<>>

\* All attachments of all messages of the request, in order.
RECURSIVE AllAttachments(_)
AllAttachments(ms) ==
    IF ms = <<>> THEN <<>>
    ELSE Head(ms).Attachments \o AllAttachments(Tail(ms))

\* part_007, sendAttachments (lines 176-199): one send per attachment, by the
\* prefix of its file type.
AttachmentSend(jid, w, att, ok) ==
    IF HasPrefix(att.FileType, "image/")
    THEN Send("SendImage", jid, <<att.DataURL, w.Content>>, ok)
    ELSE IF HasPrefix(att.FileType, "audio/")
    THEN Send("SendAudio", jid, <<att.DataURL>>, ok)
    ELSE Send("SendDocument", jid, <<att.DataURL, w.Content, att.FileType>>, ok)

\* The sends issued when the failAt-th send fails (0: none fails): the loop
\* returns at the first error.
sendAttachments(jid, w, failAt) ==
    LET atts == AllAttachments(w.Messages)
        last == IF failAt \in 1..Len(atts) THEN failAt ELSE Len(atts)
    IN  [i \in 1..last |-> AttachmentSend(jid, w, atts[i], i # failAt)]

\* part_007, handleOutgoingMessage (lines 112-162).
handleOutgoingMessage(w, instanceKnown, parseOk, composingOk, failAt) ==
    LET jid == getJIDFromWebhook(w)
        sends ==
            IF Len(w.Messages) > 0 /\ Len(w.Messages[1].Attachments) > 0
            THEN sendAttachments(jid, w, failAt)
            ELSE IF w.Content # <<>>
            THEN <<Send("SendText", jid,
                        convertChatwootToWhatsAppFormatting(w.Content),
                        failAt # 1)>>
            ELSE <<>>
        failed == \E i \in DOMAIN sends : ~sends[i].ok
    IN  IF jid = <<>> \/ ~parseOk THEN [reply |-> "invalid jid", calls |-> <<>>]
        ELSE IF ~instanceKnown
        THEN [reply |-> "instance not found", calls |-> <<>>]
        ELSE [reply |-> IF failed THEN "error" ELSE "sent",
              calls |-> <<Presence(jid, "composing", composingOk)>> \o sends
                        \o <<Presence(jid, "paused", TRUE)>>]

\* part_007, handleTypingOn / handleTypingOff (lines 72-110).
handleTyping(w, state, instanceKnown, parseOk, presenceOk) ==
    LET jid == getJIDFromWebhook(w)
    IN  IF jid = <<>> \/ ~parseOk THEN [reply |-> "invalid jid", calls |-> <<>>]
        ELSE IF ~instanceKnown
        THEN [reply |-> "instance not found", calls |-> <<>>]
        ELSE [reply |-> "typing", calls |-> <<Presence(jid, state, presenceOk)>>]

\* Mutant: message_created goes to the send whatever its message type.
ReceiveWebhookRequest_AnyType(w, instance, instanceKnown, parseOk, composingOk, failAt) ==
    IF instance = <<>> THEN [reply |-> "400", calls |-> <<>>]
    ELSE IF w.Private \/ w.IsPrivate
    THEN [reply |-> "private message ignored", calls |-> <<>>]
    ELSE IF w.Event = "conversation_typing_on"
    THEN handleTyping(w, "composing", instanceKnown, parseOk, composingOk)
    ELSE IF w.Event = "message_created"
    THEN handleOutgoingMessage(w, instanceKnown, parseOk, composingOk, failAt)
    ELSE IF w.Event = "conversation_typing_off"
    THEN handleTyping(w, "paused", instanceKnown, parseOk, composingOk)
    ELSE [reply |-> "ok", calls |-> <<>>]

\* part_007, ReceiveWebhook (lines 31-70).
ReceiveWebhookRequest(w, instance, instanceKnown, parseOk, composingOk, failAt) ==
    IF instance = <<>> THEN [reply |-> "400", calls |-> <<>>]
    ELSE IF w.Private \/ w.IsPrivate
    THEN [reply |-> "private message ignored", calls |-> <<>>]
    ELSE IF w.Event = "conversation_typing_on"
    THEN handleTyping(w, "composing", instanceKnown, parseOk, composingOk)
    ELSE IF w.Event = "message_created" /\ w.MessageType = "outgoing"
    THEN handleOutgoingMessage(w, instanceKnown, parseOk, composingOk, failAt)
    ELSE IF w.Event = "conversation_typing_off"
    THEN handleTyping(w, "paused", instanceKnown, parseOk, composingOk)
    ELSE [reply |-> "ok", calls |-> <<>>]

ReceiveWebhook007 ==
    /\ out = NoOut
    /\ \E w \in RequestWebhooks, instance \in Instances,
          instanceKnown \in BOOLEAN, parseOk \in BOOLEAN,
          composingOk \in BOOLEAN, failAt \in 0..MaxAttachments :
         LET r == ReceiveWebhookRequest(w, instance, instanceKnown, parseOk,
                                        composingOk, failAt)
         IN  out' = Handled("part_007", w, instance, instanceKnown, r.reply,
                            r.calls)
    /\ UNCHANGED inVars

\* Requests as Handle of chatwoot_webhook.go reads them from the decoded map:
\* PhoneNumber is conversation.contact.phone_number; MessageType, Private,
\* Content and Attachments are those of payload["message"].
MapWebhooks ==
    WithMessage(
        { w \in Webhooks({"message_created", "message_updated",
                         "conversation_typing_on", "conversation_typing_off"},
                        {FALSE}, {"text"}, {5}, {FALSE}, {<<>>}, {<<>>},
                        {<<>>}) : w.SourceID = <<>> },
        Lists({Attachment(ft, TRUE) : ft \in FileTypes}
              \cup {Attachment("image/png", FALSE)}),
        {<<>>}, {<<>>})

\* chatwoot_webhook.go, normalizePhone (lines 170-179).
normalizePhone(phone) ==
    RemoveChar(RemoveChar(RemoveChar(RemoveChar(RemoveChar(
        phone, "+"), " "), "-"), "("), ")")

\* chatwoot_webhook.go, lines 111-158: one send per attachment that has a
\* data_url; a failed send is logged and the loop goes on.
RECURSIVE HandleAttachments(_, _, _, _)
HandleAttachments(jid, atts, i, failAt) ==
    IF atts = <<>> THEN <<>>
    ELSE LET att == Head(atts)
             ft == att.FileType
             rest == HandleAttachments(jid, Tail(atts), i + 1, failAt)
         IN  IF att.DataURL = <<>> THEN rest
             ELSE IF HasPrefix(ft, "audio")
             THEN <<Send("SendAudio", jid, <<att.DataURL>>, i # failAt)>> \o rest
             ELSE IF HasPrefix(ft, "image")
             THEN <<Send("SendImage", jid, <<att.DataURL, <<>>>>, i # failAt)>>
                  \o rest
             ELSE <<Send("SendDocument", jid, <<att.DataURL, <<>>, ft>>,
                         i # failAt)>> \o rest

\* chatwoot_webhook.go, ChatwootWebhook.Handle (lines 23-164).
Handle(w, instance, presenceOk, textOk, failAt) ==
    LET jid == normalizePhone(w.PhoneNumber) \o NetSuffix
        text == IF w.Content # <<>>
                THEN <<Send("SendText", jid, w.Content, textOk)>>
                ELSE <<>>
    IN  IF instance = <<>> THEN [reply |-> "400", calls |-> <<>>]
        ELSE IF w.PhoneNumber = <<>> THEN [reply |-> "ignored", calls |-> <<>>]
        ELSE IF w.Event = "conversation_typing_on"
        THEN [reply |-> IF presenceOk THEN "none" ELSE "error",
              calls |-> <<Presence(jid, "composing", presenceOk)>>]
        ELSE IF w.Event = "conversation_typing_off"
        THEN [reply |-> IF presenceOk THEN "none" ELSE "error",
              calls |-> <<Presence(jid, "paused", presenceOk)>>]
        ELSE IF w.Event = "message_created"
        THEN IF w.MessageType # "outgoing" \/ w.Private
             THEN [reply |-> "ignored", calls |-> <<>>]
             ELSE IF w.Content # <<>> /\ ~textOk
             THEN [reply |-> "500", calls |-> text]
             ELSE [reply |-> "ok",
                   calls |-> text \o HandleAttachments(jid, w.Attachments, 1,
                                                       failAt)]
        ELSE [reply |-> "ok", calls |-> <<>>]

HandleWebhook ==
    /\ out = NoOut
    /\ \E w \in MapWebhooks, instance \in Instances, instanceKnown \in BOOLEAN,
          presenceOk \in BOOLEAN, textOk \in BOOLEAN,
          failAt \in 0..MaxAttachments :
         LET r == Handle(w, instance, presenceOk, textOk, failAt)
         IN  out' = Handled("chatwoot_webhook.go", w, instance, instanceKnown,
                            r.reply, r.calls)
    /\ UNCHANGED inVars

\* Requests as dto.ChatwootWebhookRequest of part_010 decodes them.
Request010Webhooks ==
    WithMessage(
        Webhooks({"message_created", "message_updated",
                  "conversation_typing_on", "conversation_typing_off"},
                 BOOLEAN, {"text"}, {5}, {FALSE}, {<<>>, IdentJid}, {<<>>},
                 {<<>>}),
        AttLists, {<<>>}, {<<>>})

\* part_010, extractNumber (lines 194-209).
extractNumber(w) ==
    IF w.PhoneNumber # <<>>
    THEN (IF Head(w.PhoneNumber) = "+" THEN Tail(w.PhoneNumber)
          ELSE w.PhoneNumber)
    ELSE IF w.SourceID # <<>> THEN SplitFirst(w.SourceID, "@")
    ELSE IF w.Identifier # <<>> THEN SplitFirst(w.Identifier, "@")
    ELSE <<>>

\* part_010, resolveInstanceAndJID (lines 174-192): the error, or "" and the
\* number handed to numberToJid.
resolveInstanceAndJID(w, instanceKnown, jidOk) ==
    IF ~instanceKnown THEN [err |-> "instance not found", jid |-> <<>>]
    ELSE IF extractNumber(w) = <<>> THEN [err |-> "invalid number", jid |-> <<>>]
    ELSE IF ~jidOk THEN [err |-> "invalid jid", jid |-> <<>>]
    ELSE [err |-> "", jid |-> extractNumber(w)]

\* part_010, sendAttachments (lines 133-172) over the event's attachments.
sendAttachments010(jid, w, failAt) ==
    LET atts == w.Attachments
        last == IF failAt \in 1..Len(atts) THEN failAt ELSE Len(atts)
    IN  [i \in 1..last |-> AttachmentSend(jid, w, atts[i], i # failAt)]

\* part_010, handleOutgoing (lines 78-119) and sendText (lines 121-131).
handleOutgoing(w, instanceKnown, jidOk, composingOk, failAt) ==
    LET r == resolveInstanceAndJID(w, instanceKnown, jidOk)
        sends ==
            IF Len(w.Attachments) > 0 THEN sendAttachments010(r.jid, w, failAt)
            ELSE IF w.Content # <<>>
            THEN <<Send("SendText", r.jid,
                        convertChatwootToWhatsAppFormatting(w.Content),
                        failAt # 1)>>
            ELSE <<>>
        failed == \E i \in DOMAIN sends : ~sends[i].ok
    IN  IF r.err # "" THEN [reply |-> r.err, calls |-> <<>>]
        ELSE [reply |-> IF failed THEN "error" ELSE "sent",
              calls |-> <<Presence(r.jid, "composing", composingOk)>> \o sends
                        \o <<Presence(r.jid, "paused", TRUE)>>]

\* part_010, handleTyping (lines 63-76).
handleTyping010(w, state, instanceKnown, jidOk, presenceOk) ==
    LET r == resolveInstanceAndJID(w, instanceKnown, jidOk)
    IN  IF r.err # "" THEN [reply |-> r.err, calls |-> <<>>]
        ELSE [reply |-> "presence updated",
              calls |-> <<Presence(r.jid, state, presenceOk)>>]

\* part_010, ReceiveWebhook (lines 30-61).
ReceiveWebhookRequest010(w, instance, instanceKnown, jidOk, composingOk, failAt) ==
    IF instance = <<>> THEN [reply |-> "400", calls |-> <<>>]
    ELSE IF w.Private \/ w.IsPrivate
    THEN [reply |-> "private ignored", calls |-> <<>>]
    ELSE IF w.Event = "conversation_typing_on"
    THEN handleTyping010(w, "composing", instanceKnown, jidOk, composingOk)
    ELSE IF w.Event = "conversation_typing_off"
    THEN handleTyping010(w, "paused", instanceKnown, jidOk, composingOk)
    ELSE IF w.Event = "message_created" /\ w.MessageType = "outgoing"
    THEN handleOutgoing(w, instanceKnown, jidOk, composingOk, failAt)
    ELSE [reply |-> "ok", calls |-> <<>>]

ReceiveWebhook010 ==
    /\ out = NoOut
    /\ \E w \in Request010Webhooks, instance \in Instances,
          instanceKnown \in BOOLEAN, jidOk \in BOOLEAN,
          composingOk \in BOOLEAN, failAt \in 0..MaxAttachments :
         LET r == ReceiveWebhookRequest010(w, instance, instanceKnown, jidOk,
                                           composingOk, failAt)
         IN  out' = Handled("part_010", w, instance, instanceKnown, r.reply,
                            r.calls)
    /\ UNCHANGED inVars

\* part_011 switches on the bare attachment kinds.
Kinds == {"audio", "image", "file", "video"}

\* Requests as ChatwootWebhook of part_011 decodes them.
Webhooks011 ==
    WithMessage(
        { w \in Webhooks({"message_created", "message_updated",
                         "conversation_typing_on", "conversation_typing_off"},
                        {FALSE}, {"text"}, {5}, {FALSE}, {<<>>, IdentJid},
                        {<<>>}, {<<>>}) :
            w.SourceID = <<>> /\ w.PhoneNumber = <<>> },
        Lists({Attachment(k, TRUE) : k \in Kinds}),
        {<<>>, SourceID(<<"A">>)}, {<<>>, SourceID(<<"B">>)})
    \cup
    { [w EXCEPT !.Content = ThumbsUp, !.InReplyTo = r] :
        w \in Webhooks({"message_created"}, {FALSE}, {"text"}, {5}, {FALSE},
                       {IdentJid}, {<<>>}, {<<>>}),
        r \in {<<>>, SourceID(<<"B">>)} }

EmojiChars == {"U+1F44D"}

RECURSIVE TrimLeft(_)
TrimLeft(s) == IF s # <<>> /\ Head(s) = " " THEN TrimLeft(Tail(s)) ELSE s

TrimSpace(s) == Reverse(TrimLeft(Reverse(TrimLeft(s))))

\* part_011, isOnlyEmoji (lines 56-62).
isOnlyEmoji(text) ==
    IF text = <<>> THEN FALSE
    ELSE /\ TrimSpace(text) # <<>>
         /\ \A i \in DOMAIN TrimSpace(text) : TrimSpace(text)[i] \in EmojiChars

\* strings.TrimPrefix
TrimPrefix(s, prefix) ==
    IF HasPrefix(s, prefix) THEN SubSeq(s, Len(prefix) + 1, Len(s)) ELSE s

\* part_011, lines 210-254: the send of one attachment, none for a kind the
\* switch does not list.
KindSend(jid, att, quoted, ok) ==
    IF att.FileType = "audio"
    THEN <<[cap |-> "SendAudio", jid |-> jid, arg |-> <<att.DataURL>>,
            ok |-> ok, quote |-> quoted]>>
    ELSE IF att.FileType = "image"
    THEN <<Send("SendImage", jid, <<att.DataURL, <<>>>>, ok)>>
    ELSE IF att.FileType = "file"
    THEN <<Send("SendDocument", jid,
                <<att.DataURL, <<>>, "application/octet-stream">>, ok)>>
    ELSE <<>>

RECURSIVE KindSends(_, _, _)
KindSends(jid, atts, quoted) ==
    IF atts = <<>> THEN <<>>
    ELSE KindSend(jid, Head(atts), quoted, TRUE) \o KindSends(jid, Tail(atts), quoted)

\* The sends up to and including the failAt-th, which fails (0: none fails).
Failing(sends, failAt) ==
    IF failAt \in 1..Len(sends)
    THEN [i \in 1..failAt |-> [sends[i] EXCEPT !.ok = (i # failAt)]]
    ELSE sends

\* part_011, ReceiveWebhook (lines 67-264).
ReceiveWebhook011Payload(w, instance, instanceKnown, parseOk, failAt) ==
    LET jid == w.Identifier
        quoted == IF w.InReplyTo # <<>> THEN TrimPrefix(w.InReplyTo, WAID)
                  ELSE <<>>
        reaction == [cap |-> "SendReaction", jid |-> jid,
                     arg |-> <<w.Content, quoted, FALSE>>, ok |-> failAt # 1]
        text == IF w.Content # <<>>
                THEN <<[cap |-> "SendText", jid |-> jid, arg |-> w.Content,
                        ok |-> TRUE, quote |-> quoted]>>
                ELSE <<>>
        sends == Failing(text \o KindSends(jid, w.Attachments, quoted), failAt)
        failed == \E i \in DOMAIN sends : ~sends[i].ok
    IN  IF instance = <<>> THEN [reply |-> "400", calls |-> <<>>]
        ELSE IF ~instanceKnown THEN [reply |-> "404", calls |-> <<>>]
        ELSE IF jid = <<>> THEN [reply |-> "400", calls |-> <<>>]
        ELSE IF ~parseOk THEN [reply |-> "400", calls |-> <<>>]
        ELSE IF w.Event = "conversation_typing_on"
        THEN [reply |-> "typing_on",
              calls |-> <<Presence(jid, "composing", failAt # 1)>>]
        ELSE IF w.Event = "conversation_typing_off"
        THEN [reply |-> "typing_off",
              calls |-> <<Presence(jid, "paused", failAt # 1)>>]
        ELSE IF w.Event = "message_created"
        THEN IF w.MessageType # "outgoing"
             THEN [reply |-> "ignored_not_outgoing", calls |-> <<>>]
             ELSE IF w.Private
             THEN [reply |-> "ignored_private", calls |-> <<>>]
             ELSE IF w.MessageSourceID # <<>>
             THEN [reply |-> "ignored_already_has_source_id", calls |-> <<>>]
             ELSE IF w.Content # <<>> /\ quoted # <<>> /\ isOnlyEmoji(w.Content)
             THEN [reply |-> IF reaction.ok THEN "reaction_sent" ELSE "500",
                   calls |-> <<reaction>>]
             ELSE [reply |-> IF failed THEN "500" ELSE "sent_to_whatsapp",
                   calls |-> sends]
        ELSE [reply |-> "ignored_event", calls |-> <<>>]

ReceiveWebhook011 ==
    /\ out = NoOut
    /\ \E w \in Webhooks011, instance \in Instances, instanceKnown \in BOOLEAN,
          parseOk \in BOOLEAN, failAt \in 0..(MaxAttachments + 1) :
         LET r == ReceiveWebhook011Payload(w, instance, instanceKnown, parseOk,
                                           failAt)
         IN  out' = Handled("part_011", w, instance, instanceKnown, r.reply,
                            r.calls)
    /\ UNCHANGED inVars

\* part_009, ReceiveWebhook (lines 47-141): ChatwootWebhook of part_009 has
\* no attachments and the switch has the message_created case only.
ReceiveWebhook009Payload(w, instance, instanceKnown, parseOk, sendOk) ==
    LET jid == w.Identifier
        messageID == TrimPrefix(w.InReplyTo, WAID)
        reaction == [cap |-> "SendReaction", jid |-> jid,
                     arg |-> <<ThumbsUp, messageID, FALSE>>, ok |-> sendOk]
        text == [cap |-> "SendText", jid |-> jid, arg |-> w.Content,
                 ok |-> sendOk, quote |-> <<>>]
    IN  IF instance = <<>> THEN [reply |-> "400", calls |-> <<>>]
        ELSE IF ~instanceKnown THEN [reply |-> "404", calls |-> <<>>]
        ELSE IF ~parseOk THEN [reply |-> "400", calls |-> <<>>]
        ELSE IF w.Event = "message_created"
        THEN IF w.MessageType # "outgoing"
             THEN [reply |-> "ignored_not_outgoing", calls |-> <<>>]
             ELSE IF w.Private
             THEN [reply |-> "ignored_private", calls |-> <<>>]
             ELSE IF w.MessageSourceID # <<>>
             THEN [reply |-> "ignored_already_has_source_id", calls |-> <<>>]
             ELSE IF w.InReplyTo # <<>>
             THEN [reply |-> IF sendOk THEN "reaction_sent" ELSE "500",
                   calls |-> <<reaction>>]
             ELSE IF w.Content # <<>>
             THEN [reply |-> IF sendOk THEN "sent" ELSE "500",
                   calls |-> <<text>>]
             ELSE [reply |-> "sent", calls |-> <<>>]
        ELSE [reply |-> "ignored_event", calls |-> <<>>]

ReceiveWebhook009 ==
    /\ out = NoOut
    /\ \E w \in Webhooks011, instance \in Instances, instanceKnown \in BOOLEAN,
          parseOk \in BOOLEAN, sendOk \in BOOLEAN :
         LET r == ReceiveWebhook009Payload(w, instance, instanceKnown, parseOk,
                                           sendOk)
         IN  out' = Handled("part_009", w, instance, instanceKnown, r.reply,
                            r.calls)
    /\ UNCHANGED inVars

\* The request handled last has been answered; the next one may arrive.
NextRequest ==
    /\ out # NoOut
    /\ out' = NoOut
    /\ UNCHANGED inVars

InitOut ==
    /\ dbConnected = FALSE
    /\ contacts = <<>>
    /\ conversations = <<>>
    /\ messages = {}
    /\ started = 0
    /\ pc = [p \in Procs |-> "idle"]
    /\ msg = [p \in Procs |-> NoMsg]
    /\ contactID = [p \in Procs |-> 0]
    /\ convID = [p \in Procs |-> 0]
    /\ found = [p \in Procs |-> <<>>]
    /\ listed = [p \in Procs |-> <<>>]
    /\ guard = [p \in Procs |-> NoGuard]
    /\ calls = [p \in Procs |-> NoCall]
    /\ resp = [p \in Procs |-> <<>>]
    /\ okContact = [ph \in Phones |-> NoHistory]
    /\ out = NoOut

NextOut ==
    \/ ReceiveWebhook
    \/ ReceiveWebhook007
    \/ HandleWebhook
    \/ ReceiveWebhook010
    \/ ReceiveWebhook011
    \/ NextRequest

SpecOut == InitOut /\ [][NextOut]_vars

\* The two handlers that turn a reply into a reaction.
NextReaction ==
    \/ ReceiveWebhook011
    \/ ReceiveWebhook009
    \/ NextRequest

SpecReaction == InitOut /\ [][NextReaction]_vars

-----------------------------------------------------------------------------
(* The pause between the composing signal and the send, in milliseconds, as *)
(* a function of len(webhook.Content).                                      *)

MaxContentLen == 1600

\* part_005, handleOutgoingMessage (line 150).
typingDelay005(n) == 500 + n

\* part_007, handleOutgoingMessage (lines 130-134); part_008 and part_010
\* compute the same.
typingDelay007(n) == IF 500 + n > 2000 THEN 2000 ELSE 500 + n

\* chatwoot.go, handleTextMessage (line 234).
typingDelayBody(n) == 500

Content(n) == [handler |-> "content", len |-> n]

Delayed(handler, n, ms) == [handler |-> handler, len |-> n, delay |-> ms]

InitDelay ==
    /\ dbConnected = FALSE
    /\ contacts = <<>>
    /\ conversations = <<>>
    /\ messages = {}
    /\ started = 0
    /\ pc = [p \in Procs |-> "idle"]
    /\ msg = [p \in Procs |-> NoMsg]
    /\ contactID = [p \in Procs |-> 0]
    /\ convID = [p \in Procs |-> 0]
    /\ found = [p \in Procs |-> <<>>]
    /\ listed = [p \in Procs |-> <<>>]
    /\ guard = [p \in Procs |-> NoGuard]
    /\ calls = [p \in Procs |-> NoCall]
    /\ resp = [p \in Procs |-> <<>>]
    /\ okContact = [ph \in Phones |-> NoHistory]
    /\ \E n \in 0..MaxContentLen : out = Content(n)

Delay005 ==
    /\ out.handler = "content"
    /\ out' = Delayed("part_005", out.len, typingDelay005(out.len))
    /\ UNCHANGED inVars

Delay007 ==
    /\ out.handler = "content"
    /\ out' = Delayed("part_007", out.len, typingDelay007(out.len))
    /\ UNCHANGED inVars

DelayBody ==
    /\ out.handler = "content"
    /\ out' = Delayed("chatwoot.go", out.len, typingDelayBody(out.len))
    /\ UNCHANGED inVars

NextDelay == Delay005 \/ Delay007 \/ DelayBody

SpecDelay == InitDelay /\ [][NextDelay]_vars

\* Both halves of the bridge on a fresh desk.  They share no variable, so
\* the webhook requests are explored before the inbound event arrives, not
\* interleaved with it.
NextBridge ==
    \/ out = NoOut /\ Next
    \/ started = 0 /\ NextOut

SpecBridge == InitOut /\ [][NextBridge]_vars

-----------------------------------------------------------------------------
(* Classification of an inbound media message: extractMediaMeta and the     *)
(* two functions it uses.                                                   *)

ImageJpeg ==
    <<"i", "m", "a", "g", "e", "/", "j", "p", "e", "g">>
ImagePng ==
    <<"i", "m", "a", "g", "e", "/", "p", "n", "g">>
VideoMp4 ==
    <<"v", "i", "d", "e", "o", "/", "m", "p", "4">>
AudioOgg ==
    <<"a", "u", "d", "i", "o", "/", "o", "g", "g">>
OctetStream ==
    <<"a", "p", "p", "l", "i", "c", "a", "t", "i", "o", "n", "/", "o", "c",
    "t", "e", "t", "-", "s", "t", "r", "e", "a", "m">>

Ext(e) == <<".">> \o e

\* strings.Contains
Contains(s, sub) ==
    \E i \in 1..(Len(s) + 1) :
        i + Len(sub) - 1 <= Len(s) /\ SubSeq(s, i, i + Len(sub) - 1) = sub

\* strings.SplitN(raw, ";", 2)[0]: raw up to its first ";".
RECURSIVE BeforeSemicolon(_)
BeforeSemicolon(raw) ==
    IF raw = <<>> \/ Head(raw) = ";" THEN <<>>
    ELSE <<Head(raw)>> \o BeforeSemicolon(Tail(raw))

\* Mutant: the parameters of the mimetype are kept.
cleanMimetype_KeepsParameters(raw, fallback) ==
    IF raw = <<>> THEN fallback
    ELSE IF TrimSpace(raw) = <<>> THEN fallback ELSE TrimSpace(raw)

\* cleanMimetype (lines 807-818).
cleanMimetype(raw, fallback) ==
    IF raw = <<>> THEN fallback
    ELSE LET clean == TrimSpace(BeforeSemicolon(raw))
         IN  IF clean = <<>> THEN fallback ELSE clean

\* mimetypeToExt (lines 821-844).
mimetypeToExt(mimetype, fallback) ==
    IF mimetype = ImageJpeg THEN <<"j", "p", "g">>
    ELSE IF mimetype = ImagePng THEN <<"p", "n", "g">>
    ELSE IF mimetype = <<"i", "m", "a", "g", "e", "/", "g", "i", "f">>
    THEN <<"g", "i", "f">>
    ELSE IF mimetype = <<"i", "m", "a", "g", "e", "/", "w", "e", "b", "p">>
    THEN <<"w", "e", "b", "p">>
    ELSE IF mimetype = VideoMp4 THEN <<"m", "p", "4">>
    ELSE IF mimetype = <<"v", "i", "d", "e", "o", "/", "3", "g", "p", "p">>
    THEN <<"3", "g", "p">>
    ELSE IF mimetype = AudioOgg THEN <<"o", "g", "g">>
    ELSE IF mimetype = <<"a", "u", "d", "i", "o", "/", "m", "p", "4">>
    THEN <<"m", "4", "a">>
    ELSE IF mimetype = <<"a", "p", "p", "l", "i", "c", "a", "t", "i", "o", "n", "/", "p", "d", "f">>
    THEN <<"p", "d", "f">>
    ELSE fallback

Meta(filename, caption, mimetype) ==
    [filename |-> filename, caption |-> caption, mimetype |-> mimetype]

\* Mutant: audio is classified like an image, by its cleaned mimetype.
audioMeta_ByTable(id, raw) ==
    Meta(id \o Ext(mimetypeToExt(cleanMimetype(raw, AudioOgg), <<"o", "g", "g">>)),
         <<>>, cleanMimetype(raw, AudioOgg))

\* The audio case of extractMediaMeta (lines 763-776).
audioMeta(id, raw) ==
    IF Contains(raw, <<"o", "g", "g">>)
    THEN Meta(id \o Ext(<<"o", "g", "g">>), <<>>, AudioOgg)
    ELSE IF Contains(raw, <<"m", "p", "4">>)
    THEN Meta(id \o Ext(<<"m", "4", "a">>), <<>>,
              <<"a", "u", "d", "i", "o", "/", "m", "p", "4">>)
    ELSE Meta(id \o Ext(<<"o", "g", "g">>), <<>>, AudioOgg)

\* extractMediaMeta (lines 751-804).  d.kind names the first non-nil member
\* of the message in the order of the switch ("nil": no message at all,
\* "other": none of the four); d.id is Key.Id, empty without a key.
extractMediaMeta(d) ==
    IF d.kind = "nil"
    THEN Meta(<<"f", "i", "l", "e">> \o Ext(<<"b", "i", "n">>), <<>>, OctetStream)
    ELSE IF d.kind = "audio" THEN audioMeta(d.id, d.Mimetype)
    ELSE IF d.kind = "video"
    THEN Meta(d.id \o Ext(<<"m", "p", "4">>), d.Caption,
              cleanMimetype(d.Mimetype, VideoMp4))
    ELSE IF d.kind = "image"
    THEN LET mimetype == cleanMimetype(d.Mimetype, ImageJpeg)
         IN  Meta(d.id \o Ext(mimetypeToExt(mimetype, <<"j", "p", "g">>)),
                  d.Caption, mimetype)
    ELSE IF d.kind = "document"
    THEN LET mimetype == cleanMimetype(d.Mimetype, OctetStream)
         IN  Meta(IF d.FileName # <<>> THEN d.FileName
                  ELSE d.id \o Ext(mimetypeToExt(mimetype, <<"b", "i", "n">>)),
                  d.Caption, mimetype)
    ELSE Meta(d.id \o Ext(<<"b", "i", "n">>), <<>>, OctetStream)

RawMimetypes ==
    { <<>>,
      <<" ">>,
      <<";", "x">>,
      <<"i", "m", "a", "g", "e", "/", "j", "p", "e", "g">>,
      <<"i", "m", "a", "g", "e", "/", "p", "n", "g", ";", "x">>,
      <<" ", "i", "m", "a", "g", "e", "/", "g", "i", "f", " ", ";", "x">>,
      <<"i", "m", "a", "g", "e", "/", "w", "e", "b", "p">>,
      <<"i", "m", "a", "g", "e", "/", "b", "m", "p">>,
      <<"v", "i", "d", "e", "o", "/", "m", "p", "4">>,
      <<"v", "i", "d", "e", "o", "/", "3", "g", "p", "p">>,
      <<"v", "i", "d", "e", "o", "/", "3", "g", "p", "p", ";", " ", "x">>,
      <<"a", "u", "d", "i", "o", "/", "o", "g", "g", ";", " ", "c", "o",
      "d", "e", "c", "s", "=", "o", "p", "u", "s">>,
      <<"a", "u", "d", "i", "o", "/", "m", "p", "4">>,
      <<"a", "u", "d", "i", "o", "/", "m", "p", "e", "g">>,
      <<"a", "p", "p", "l", "i", "c", "a", "t", "i", "o", "n", "/", "p",
      "d", "f">>,
      <<"t", "e", "x", "t", "/", "p", "l", "a", "i", "n">> }

Captions == {<<>>, <<" ", "h", "i", ";", " ">>}

FileNames == {<<>>, <<"r", ".", "p", "d", "f">>}

\* The messages classified: a field the kind does not carry is empty.
MediaData ==
    { d \in [kind : {"nil", "audio", "video", "image", "document", "other"},
             id : {<<>>, <<"A", "B", "C", "1", "2", "3">>},
             Mimetype : RawMimetypes,
             Caption : Captions, FileName : FileNames] :
        /\ d.kind = "nil" => d.id = <<>>
        /\ d.kind \in {"nil", "other"} => d.Mimetype = <<>>
        /\ d.kind \in {"nil", "other", "audio"} => d.Caption = <<>>
        /\ d.kind # "document" => d.FileName = <<>> }

Classified(d, r) ==
    [handler |-> "extractMediaMeta", data |-> d, filename |-> r.filename,
     caption |-> r.caption, mimetype |-> r.mimetype]

InitMedia ==
    /\ dbConnected = FALSE
    /\ contacts = <<>>
    /\ conversations = <<>>
    /\ messages = {}
    /\ started = 0
    /\ pc = [p \in Procs |-> "idle"]
    /\ msg = [p \in Procs |-> NoMsg]
    /\ contactID = [p \in Procs |-> 0]
    /\ convID = [p \in Procs |-> 0]
    /\ found = [p \in Procs |-> <<>>]
    /\ listed = [p \in Procs |-> <<>>]
    /\ guard = [p \in Procs |-> NoGuard]
    /\ calls = [p \in Procs |-> NoCall]
    /\ resp = [p \in Procs |-> <<>>]
    /\ okContact = [ph \in Phones |-> NoHistory]
    /\ \E d \in MediaData : out = [handler |-> "data", data |-> d]

ExtractMediaMeta ==
    /\ out.handler = "data"
    /\ out' = Classified(out.data, extractMediaMeta(out.data))
    /\ UNCHANGED inVars

NextMedia == ExtractMediaMeta

SpecMedia == InitMedia /\ [][NextMedia]_vars

-----------------------------------------------------------------------------
(* The desk inbox of an instance: Service.EnsureInbox of part_001.          *)

\* Instances as EnsureInbox reads them: ChatwootURL, ChatwootToken,
\* ChatwootAccountID and the stored ChatwootInboxID ("" when none).
InboxInstances ==
    [ChatwootURL : {<<>>, <<"u">>}, ChatwootToken : {<<>>, <<"t">>},
     ChatwootAccountID : {0, 1}, ChatwootInboxID : {<<>>, <<"7">>, <<"8">>}]

\* The inboxes of the account on the desk, by id.
InboxDesks == SUBSET {<<"7">>, <<"8">>}

\* The ways GET /inboxes/<id> can return for an inbox that exists or not:
\* 200 for one that exists, 404 for one that does not, another status
\* (401, 429, 5xx) or a transport error for either.
CheckOutcomes(exists) == (IF exists THEN {"200"} ELSE {"404"}) \cup {"500", "err"}

CreateOutcomes == {"201", "500", "err"}

\* checkInboxExists (lines 66-88): (exists, err).
checkInboxExists(o) ==
    IF o = "err" THEN [exists |-> FALSE, err |-> TRUE]
    ELSE [exists |-> (o = "200"), err |-> FALSE]

\* createInbox (lines 93-161): the call, the id returned, the desk after;
\* "9" is the id the desk gives to the inbox it creates.
createInbox(desk, made, o) ==
    [calls |-> Append(made, "createInbox"),
     id |-> IF o = "201" THEN <<"9">> ELSE <<>>,
     err |-> o # "201",
     desk |-> IF o = "201" THEN desk \cup {<<"9">>} ELSE desk]

\* EnsureInbox (lines 31-61).
EnsureInbox(instance, desk, check, create) ==
    LET r == checkInboxExists(check)
    IN  IF \/ instance.ChatwootURL = <<>>
           \/ instance.ChatwootToken = <<>>
           \/ instance.ChatwootAccountID = 0
        THEN [calls |-> <<>>, id |-> <<>>, err |-> TRUE, desk |-> desk]
        ELSE IF instance.ChatwootInboxID # <<>>
        THEN IF ~r.err /\ r.exists
             THEN [calls |-> <<"checkInboxExists">>,
                   id |-> instance.ChatwootInboxID, err |-> FALSE,
                   desk |-> desk]
             ELSE createInbox(desk, <<"checkInboxExists">>, create)
        ELSE createInbox(desk, <<>>, create)

InitInbox ==
    /\ dbConnected = FALSE
    /\ contacts = <<>>
    /\ conversations = <<>>
    /\ messages = {}
    /\ started = 0
    /\ pc = [p \in Procs |-> "idle"]
    /\ msg = [p \in Procs |-> NoMsg]
    /\ contactID = [p \in Procs |-> 0]
    /\ convID = [p \in Procs |-> 0]
    /\ found = [p \in Procs |-> <<>>]
    /\ listed = [p \in Procs |-> <<>>]
    /\ guard = [p \in Procs |-> NoGuard]
    /\ calls = [p \in Procs |-> NoCall]
    /\ resp = [p \in Procs |-> <<>>]
    /\ okContact = [ph \in Phones |-> NoHistory]
    /\ \E instance \in InboxInstances, desk \in InboxDesks :
         out = [handler |-> "instance", instance |-> instance, desk |-> desk]

EnsureInboxCall ==
    /\ out.handler = "instance"
    /\ \E check \in CheckOutcomes(out.instance.ChatwootInboxID \in out.desk),
          create \in CreateOutcomes :
         out' = [handler |-> "EnsureInbox", instance |-> out.instance,
                 before |-> out.desk, check |-> check,
                 result |-> EnsureInbox(out.instance, out.desk, check, create)]
    /\ UNCHANGED inVars

NextInbox == EnsureInboxCall

SpecInbox == InitInbox /\ [][NextInbox]_vars

-----------------------------------------------------------------------------
\* Properties of the inbound path (HandleMessage and its callees).

HasCall(p, op) == \E i \in DOMAIN calls[p] : calls[p][i].op = op

CallCount(p, op) == Cardinality({i \in DOMAIN calls[p] : calls[p][i].op = op})

WriteOps == {"createContact", "createConversation", "postMessage"}

\* A message carrying this WhatsApp id is recorded for conversation c.
Recorded(c, id) ==
    \E m \in messages : m.conv = c /\ m.source_id = SourceID(id)

RecordedAnywhere(id) == \E m \in messages : m.source_id = SourceID(id)

Reusable(c) == c.inbox_id = InboxID /\ c.status # "resolved"

HasReusable(payload) == \E i \in DOMAIN payload : Reusable(payload[i])

FirstReusable(payload) ==
    CHOOSE i \in DOMAIN payload :
        /\ Reusable(payload[i])
        /\ \A j \in 1..(i - 1) : ~Reusable(payload[j])

\* C1, as stated: once a message with the WhatsApp id of the running call is
\* recorded on the desk, the call issues no write of any kind (no contact
\* create, no conversation create, no message POST).
C1_NoWriteOnceRecorded ==
    [][\A p \in Procs :
         (pc[p] \notin {"idle", "done"} /\ RecordedAnywhere(msg[p].Id))
         => \/ calls'[p] = calls[p]
            \/ calls'[p][Len(calls'[p])].op \notin WriteOps]_vars

\* C1, amended: when the store is connected, the lookup succeeds and a
\* message with the same WhatsApp id is recorded for the conversation the
\* call resolved to, the check step ends the call without a message POST,
\* on the text path and on the media path alike.
C1_GuardSuppressesPost ==
    [][\A p \in Procs :
         (/\ pc[p] = "checkMessageExists"
          /\ pc'[p] # pc[p]
          /\ dbConnected
          /\ ~guard'[p].err
          /\ Recorded(convID[p], msg[p].Id))
         => /\ pc'[p] = "done"
            /\ guard'[p].exists
            /\ ~\E i \in DOMAIN calls'[p] : calls'[p][i].op = "postMessage"
            /\ messages' = messages]_vars

\* C1 witness: a media message whose id was already recorded for the
\* resolved conversation ended without a POST.
C1_Witness ==
    \E p \in Procs :
        /\ pc[p] = "done"
        /\ dbConnected
        /\ guard[p].queried /\ guard[p].exists
        /\ msg[p].Message.Base64 # <<>>
        /\ Recorded(convID[p], msg[p].Id)
        /\ ~HasCall(p, "postMessage")

\* C4: when the store is not connected or the lookup returns an error, the
\* guard answers "absent" and the send goes on to the POST (fail open).
C4_GuardFailsOpen ==
    \A p \in Procs :
        (guard[p].checked /\ (~dbConnected \/ guard[p].err))
        => /\ ~guard[p].exists
           /\ pc[p] = "post" \/ HasCall(p, "postMessage")

\* C4 witness: the lookup failed for a message that is in fact recorded, and
\* the message was posted a second time.
C4_Witness ==
    \E p \in Procs :
        /\ pc[p] = "done"
        /\ dbConnected /\ guard[p].err
        /\ HasCall(p, "postMessage")
        /\ \E m \in messages :
             m.conv = convID[p] /\ m.source_id = SourceID(msg[p].Id) /\ m.n = 2

\* C5: check and POST are not atomic; every call that observed "absent" on
\* a working store goes on to the POST, whatever another call did meanwhile.
C5_CheckThenAct ==
    \A p \in Procs :
        (dbConnected /\ guard[p].queried /\ ~guard[p].err /\ ~guard[p].exists)
        => pc[p] = "post" \/ HasCall(p, "postMessage")

\* C5 witness: two concurrent calls for the same message id and conversation
\* both observed "absent" and both posted; the desk holds the message twice.
C5_Witness ==
    /\ dbConnected
    /\ \A p \in Procs :
         /\ pc[p] = "done"
         /\ guard[p].queried /\ ~guard[p].err /\ ~guard[p].exists
         /\ HasCall(p, "postMessage")
    /\ msg[1].Id = msg[2].Id
    /\ convID[1] = convID[2]
    /\ \E m \in messages :
         m.conv = convID[1] /\ m.source_id = SourceID(msg[1].Id) /\ m.n = 2

\* C6: when the listed conversations hold at least one in the tenant inbox
\* that is not resolved, the first such in the list order is used and no
\* conversation is created.
C6_FirstReusableConversation ==
    \A p \in Procs :
        HasReusable(listed[p])
        => /\ convID[p] = listed[p][FirstReusable(listed[p])].id
           /\ pc[p] # "createConversation"
           /\ ~HasCall(p, "createConversation")

\* C6 witness: the list held two reusable conversations behind one of
\* another inbox; the earlier of the two was used.
C6_Witness ==
    \E p \in Procs :
        /\ pc[p] = "done"
        /\ Len(listed[p]) = 3
        /\ ~Reusable(listed[p][1])
        /\ Reusable(listed[p][2]) /\ Reusable(listed[p][3])
        /\ convID[p] = listed[p][2].id
        /\ HasCall(p, "postMessage")

\* C7: when the list call succeeds and no listed conversation is reusable,
\* exactly one conversation is created, for the resolved contact in the
\* tenant inbox; no listed conversation is reused or reopened.
C7_CreateWhenNoneReusable ==
    \A p \in Procs :
        (/\ \E i \in DOMAIN calls[p] :
               calls[p][i].op = "listConversations" /\ calls[p][i].b = "ok"
         /\ ~HasReusable(listed[p])
         /\ pc[p] \in {"checkMessageExists", "post", "done"})
        => /\ CallCount(p, "createConversation") = 1
           /\ \A i \in DOMAIN calls[p] :
                calls[p][i].op = "createConversation"
                => calls[p][i].a = contactID[p] /\ calls[p][i].b = InboxID
           /\ \A i \in DOMAIN listed[p] :
                /\ convID[p] # listed[p][i].id
                /\ conversations[listed[p][i].id].status = listed[p][i].status
           /\ convID[p] > 0
              => /\ conversations[convID[p]].contact = contactID[p]
                 /\ conversations[convID[p]].inbox = InboxID

\* C7 witness: the list held a resolved conversation of the tenant inbox and
\* an open one of another inbox; a new conversation was created and used.
C7_Witness ==
    \E p \in Procs :
        /\ pc[p] = "done"
        /\ Len(listed[p]) = 2
        /\ \E i \in DOMAIN listed[p] :
             listed[p][i].inbox_id = InboxID /\ listed[p][i].status = "resolved"
        /\ \E i \in DOMAIN listed[p] :
             listed[p][i].inbox_id # InboxID /\ listed[p][i].status = "open"
        /\ convID[p] = Len(conversations)
        /\ \A i \in DOMAIN listed[p] : listed[p][i].id < convID[p]
        /\ HasCall(p, "postMessage")

NoDupPhones ==
    \A i, j \in DOMAIN contacts : contacts[i] = contacts[j] => i = j

\* C8: a non-empty search result yields its first contact and no create; a
\* create is issued only on an empty result, with name, "+"-prefixed phone
\* and full JID; on a desk holding one contact per phone, all calls for a
\* phone return the same id with at most one create between them.
C8_FindOrCreateContact ==
    /\ \A p \in Procs :
         found[p] # <<>>
         => contactID[p] = found[p][1] /\ ~HasCall(p, "createContact")
    /\ \A p \in Procs : \A i \in DOMAIN calls[p] :
         calls[p][i].op = "createContact"
         => /\ found[p] = <<>>
            /\ calls[p][i].a = pushNameOf(msg[p])
            /\ calls[p][i].b = PlusPhone(extractPhone(msg[p].RemoteJid))
            /\ calls[p][i].c = msg[p].RemoteJid
    /\ NoDupPhones
       => \A ph \in Phones :
            /\ Cardinality(okContact[ph].ids) <= 1
            /\ okContact[ph].creates <= 1

\* C8 witness: two calls for the same phone returned the same contact, one
\* of them having created it.
C8_Witness ==
    /\ NoDupPhones
    /\ \E ph \in Phones :
         /\ okContact[ph].n = 2
         /\ okContact[ph].creates = 1
         /\ Cardinality(okContact[ph].ids) = 1
    /\ contactID[1] = contactID[2]
    /\ contactID[1] > 0
    /\ HasCall(1, "createContact") /\ ~HasCall(2, "createContact")
    /\ found[2] # <<>>

\* C9, as stated: a message older than 30 seconds is dropped before contact
\* resolution; no desk call is issued for it.
C9_StaleDropped ==
    \A p \in Procs : msg[p].age > 30 => calls[p] = <<>>

\* The server part of a JID (what follows "@").
Server(jid) ==
    IF Index(jid, "@") = 0 THEN <<>>
    ELSE SubSeq(jid, Index(jid, "@") + 1, Len(jid))

IsBroadcast(jid) == Server(jid) = <<"b", "r", "o", "a", "d", "c", "a", "s", "t">>

\* C10, as stated: a message whose peer is a broadcast or status address is
\* dropped; no desk call is issued for it.
C10_BroadcastDropped ==
    \A p \in Procs : IsBroadcast(msg[p].RemoteJid) => calls[p] = <<>>

Digits == {"0", "1", "2", "3", "4", "5", "6", "7", "8", "9"}

\* The longest prefix of s made of decimal digits.
RECURSIVE LeadingDigits(_)
LeadingDigits(s) ==
    IF s = <<>> \/ Head(s) \notin Digits THEN <<>>
    ELSE <<Head(s)>> \o LeadingDigits(Tail(s))

\* s is "<digits>@<domain>" or "<digits>:<n>@<domain>".
IsPeerForm(s) ==
    LET d == LeadingDigits(s)
        rest == SubSeq(s, Len(d) + 1, Len(s))
    IN  /\ d # <<>>
        /\ rest # <<>>
        /\ \/ Head(rest) = "@"
           \/ /\ Head(rest) = ":"
              /\ LeadingDigits(Tail(rest)) # <<>>
              /\ Len(rest) > Len(LeadingDigits(Tail(rest))) + 1
              /\ rest[Len(LeadingDigits(Tail(rest))) + 2] = "@"

\* C11: for a peer id "<digits>:<n>@<domain>" or "<digits>@<domain>" the
\* phone the call resolves, and searches the desk for, is <digits>.
C11_PhoneIsDigitsBeforeDevice ==
    \A p \in Procs :
        (pc[p] # "idle" /\ IsPeerForm(msg[p].RemoteJid))
        => /\ extractPhone(msg[p].RemoteJid) = LeadingDigits(msg[p].RemoteJid)
           /\ calls[p] # <<>>
           /\ calls[p][1] = Call("searchContact",
                                 <<"+">> \o LeadingDigits(msg[p].RemoteJid), 0, 0)

\* C11 witness: a peer id with a device part was searched by its digits.
C11_Witness ==
    \E p \in Procs :
        /\ pc[p] = "done"
        /\ msg[p].RemoteJid = UserJid
        /\ calls[p][1].a = <<"+", "5", "5", "1">>

\* C12, as stated: every phone handed to contact resolution is non-empty and
\* made of decimal digits only, whatever peer id the message carries.
C12_PhoneDigitsOnly ==
    \A p \in Procs : \A i \in DOMAIN calls[p] :
        calls[p][i].op = "searchContact"
        => LET phone == Tail(calls[p][i].a)
           IN  /\ phone # <<>>
               /\ \A k \in DOMAIN phone : phone[k] \in Digits

\* C19: every message POST, on the JSON text path and on the multipart media
\* path, carries private = false, source_id = "WAID:" + message id, and
\* message_type "outgoing" for a self-sent message, "incoming" otherwise.
C19_PostedMessageFields ==
    \A p \in Procs : \A i \in DOMAIN calls[p] :
        calls[p][i].op = "postMessage"
        => /\ calls[p][i].b = <<"W", "A", "I", "D", ":">> \o msg[p].Id
           /\ calls[p][i].c[1] =
                (IF msg[p].FromMe THEN "outgoing" ELSE "incoming")
           /\ calls[p][i].c[2] =
                (IF msg[p].Message.Base64 # <<>> THEN "media" ELSE "text")
           /\ calls[p][i].c[3] = FALSE

\* C19 witness: a self-sent media message was posted as "outgoing".
C19_Witness ==
    \E p \in Procs :
        /\ pc[p] = "done"
        /\ msg[p].FromMe
        /\ msg[p].Message.Base64 # <<>>
        /\ \E i \in DOMAIN calls[p] :
             /\ calls[p][i].op = "postMessage"
             /\ calls[p][i].c = <<"outgoing", "media", FALSE>>

DeskOps ==
    {"searchContact", "createContact", "listConversations",
     "createConversation", "postMessage"}

\* C20: after a failed contact resolution the call makes no conversation
\* lookup, no conversation create and no POST; after a failed conversation
\* resolution it makes no POST; no desk call is issued twice for a message.
C20_AbortOnResolutionFailure ==
    \A p \in Procs :
        /\ (pc[p] = "done" /\ calls[p] # <<>> /\ contactID[p] = 0)
           => /\ ~HasCall(p, "listConversations")
              /\ ~HasCall(p, "createConversation")
              /\ ~HasCall(p, "dbQuery")
              /\ ~HasCall(p, "postMessage")
        /\ (pc[p] = "done" /\ contactID[p] > 0 /\ convID[p] = 0)
           => ~HasCall(p, "dbQuery") /\ ~HasCall(p, "postMessage")
        /\ \A op \in DeskOps : CallCount(p, op) <= 1

\* C20 witness: the conversation create failed for a text message; the call
\* ended with the contact resolved and nothing posted.
C20_Witness ==
    \E p \in Procs :
        /\ pc[p] = "done"
        /\ msg[p].Message.Conversation # <<>>
        /\ contactID[p] > 0
        /\ convID[p] = 0
        /\ calls[p][Len(calls[p])].op = "createConversation"

\* C21, as stated: a non-2xx answer to any desk call of a unit of work ends
\* the unit; that call is its last call.
C21_Non2xxIsTerminal ==
    \A p \in Procs : \A i \in DOMAIN calls[p] :
        (calls[p][i].op \in DeskOps /\ resp[p][i] = "http4xx")
        => i = Len(calls[p]) /\ pc[p] = "done"

\* C22, as stated: whichever envelope carries the id of the created contact,
\* the call takes that id and goes on to conversation resolution.
C22_BothEnvelopes ==
    \A p \in Procs : \A i \in DOMAIN calls[p] :
        (calls[p][i].op = "createContact" /\ resp[p][i] \in Envelopes)
        => /\ contactID[p] > 0
           /\ contacts[contactID[p]] = calls[p][i].b
           /\ pc[p] = "findOrCreateConversation"
              \/ HasCall(p, "listConversations")

\* C24: every started unit of work ends; once its deadline has expired every
\* further call of the unit is cut short by it, nothing more is written to the
\* desk, no call is issued twice, and the unit ends.
C24_DeadlineTerminates ==
    /\ \A p \in Procs : (pc[p] \notin {"idle", "done"}) ~> (pc[p] = "done")
    /\ [][\A p \in Procs :
            Expired(p)
            => /\ \A i \in DOMAIN resp'[p] :
                    i > Len(resp[p]) => resp'[p][i] = "deadline"
               /\ \A op \in DeskOps : CallCount(p, op) <= 1
               /\ <<contacts', conversations', messages'>>
                    = <<contacts, conversations, messages>>]_vars

\* C24 witness: the deadline expired during the dedup query; the POST that
\* followed was cut short and the unit ended with nothing recorded for it.
C24_Witness ==
    /\ pc[1] = "done"
    /\ Len(calls[1]) >= 2
    /\ calls[1][Len(calls[1]) - 1].op = "dbQuery"
    /\ resp[1][Len(resp[1]) - 1] = "deadline"
    /\ calls[1][Len(calls[1])].op = "postMessage"
    /\ resp[1][Len(resp[1])] = "deadline"
    /\ ~Recorded(convID[1], msg[1].Id)

-----------------------------------------------------------------------------
\* Properties of the outbound path (the webhook handlers).

IsSend(c) ==
    c.cap \in {"SendText", "SendImage", "SendAudio", "SendDocument",
               "SendReaction"}

\* C2, as stated: in an outgoing-message handler, every successful
\* "composing" presence call is followed by a "paused" presence call for the
\* same peer before the handler returns, also when the send fails.
C2_PausedOnEveryExit ==
    (out # NoOut /\ out.webhook.Event = "message_created")
    => \A i \in DOMAIN out.calls :
         (/\ out.calls[i].cap = "ChatPresence"
          /\ out.calls[i].arg = "composing"
          /\ out.calls[i].ok)
         => \E j \in DOMAIN out.calls :
              /\ j > i
              /\ out.calls[j].cap = "ChatPresence"
              /\ out.calls[j].arg = "paused"
              /\ out.calls[j].jid = out.calls[i].jid

\* C3, as stated: a message-created event whose first conversation message
\* carries a source tag starting with "WAID:" makes no send call.
C3_LoopPrevention ==
    (/\ out # NoOut
     /\ out.webhook.Event = "message_created"
     /\ Len(out.webhook.Messages) > 0
     /\ HasPrefix(out.webhook.Messages[1].SourceID, WAID))
    => \A i \in DOMAIN out.calls : ~IsSend(out.calls[i])

\* C13, as stated: a request flagged private makes no capability call,
\* whatever its event type.
C13_PrivateDropped ==
    (out # NoOut /\ (out.webhook.Private \/ out.webhook.IsPrivate))
    => out.calls = <<>>

\* C14: a message_created request whose message type is not "outgoing" makes
\* no presence call and no send.
C14_NotOutgoingDropped ==
    (/\ out # NoOut
     /\ out.webhook.Event = "message_created"
     /\ out.webhook.MessageType # "outgoing")
    => out.calls = <<>>

\* C14 witness: an incoming message with content and a peer, for a known
\* route, was answered without any call.
C14_Witness ==
    /\ out # NoOut
    /\ out.handler = "part_007"
    /\ out.instance # <<>>
    /\ out.webhook.Event = "message_created"
    /\ out.webhook.MessageType = "incoming"
    /\ ~out.webhook.Private /\ ~out.webhook.IsPrivate
    /\ out.webhook.Content # <<>>
    /\ out.webhook.Identifier # <<>>
    /\ Len(out.webhook.Messages) > 0
    /\ out.reply = "ok"
    /\ out.calls = <<>>

\* The peer the claimed fallback order selects.
ExpectedPeer(w) ==
    IF w.Identifier # <<>> THEN w.Identifier
    ELSE IF w.SourceID # <<>> THEN w.SourceID
    ELSE IF w.PhoneNumber # <<>>
    THEN (IF Head(w.PhoneNumber) = "+" THEN Tail(w.PhoneNumber)
          ELSE w.PhoneNumber) \o NetSuffix
    ELSE <<>>

\* Replies given when the route or the peer could not be resolved.
FailureReplies ==
    {"400", "404", "invalid jid", "instance not found", "invalid number"}

\* C15, as stated: a typing-on (typing-off) request that is not private,
\* names a conversation and a peer, and whose route and peer resolve makes
\* exactly one presence call, composing (paused), and no send.
C15_TypingForwardedOnce ==
    (/\ out # NoOut
     /\ out.webhook.Event \in {"conversation_typing_on",
                               "conversation_typing_off"}
     /\ ~out.webhook.Private /\ ~out.webhook.IsPrivate
     /\ out.webhook.ConversationID # 0
     /\ ExpectedPeer(out.webhook) # <<>>
     /\ out.reply \notin FailureReplies)
    => /\ Len(out.calls) = 1
       /\ out.calls[1].cap = "ChatPresence"
       /\ out.calls[1].arg =
            (IF out.webhook.Event = "conversation_typing_on"
             THEN "composing" ELSE "paused")

\* C16, as stated: the peer of every call is the first non-empty of sender
\* identifier, contact-inbox source id, phone number; with no candidate no
\* call is made.
C16_PeerFallbackOrder ==
    out # NoOut
    => /\ ExpectedPeer(out.webhook) = <<>> => out.calls = <<>>
       /\ \A i \in DOMAIN out.calls :
            SplitFirst(out.calls[i].jid, "@")
              = SplitFirst(ExpectedPeer(out.webhook), "@")

EventAttachments(w) == w.Attachments \o AllAttachments(w.Messages)

ExpectedCap(att) ==
    IF HasPrefix(att.FileType, "image/") THEN "SendImage"
    ELSE IF HasPrefix(att.FileType, "audio/") THEN "SendAudio"
    ELSE "SendDocument"

ExpectedArg(att, content) ==
    IF HasPrefix(att.FileType, "image/") THEN <<att.DataURL, content>>
    ELSE IF HasPrefix(att.FileType, "audio/") THEN <<att.DataURL>>
    ELSE <<att.DataURL, content, att.FileType>>

\* C17, as stated: for an outgoing message with attachments, each with a
\* data URL, whose sends all succeed, the sends are exactly one per
\* attachment, by mime prefix (image with the content as caption, audio, else
\* document with caption and mimetype), and no text send.
C17_AttachmentRouting ==
    (/\ out # NoOut
     /\ out.webhook.Event = "message_created"
     /\ out.webhook.MessageType = "outgoing"
     /\ EventAttachments(out.webhook) # <<>>
     /\ \A i \in DOMAIN EventAttachments(out.webhook) :
          EventAttachments(out.webhook)[i].DataURL # <<>>
     /\ out.calls # <<>>
     /\ \A i \in DOMAIN out.calls : out.calls[i].ok)
    => LET sends == SelectSeq(out.calls, IsSend)
           atts == EventAttachments(out.webhook)
       IN  /\ Len(sends) = Len(atts)
           /\ \A i \in DOMAIN sends :
                /\ sends[i].cap = ExpectedCap(atts[i])
                /\ sends[i].arg = ExpectedArg(atts[i], out.webhook.Content)

\* C18, as stated: for an outgoing message with content "**hi**" and no
\* attachments, the text sent is exactly "*hi*".
C18_BoldTranslated ==
    (/\ out # NoOut
     /\ out.webhook.Event = "message_created"
     /\ out.webhook.MessageType = "outgoing"
     /\ out.webhook.Content = <<"*", "*", "h", "i", "*", "*">>
     /\ EventAttachments(out.webhook) = <<>>)
    => \A i \in DOMAIN out.calls :
         out.calls[i].cap = "SendText"
         => out.calls[i].arg = <<"*", "h", "i", "*">>

IsMediaSend(c) == c.cap \in {"SendImage", "SendAudio", "SendDocument"}

IsTextSend(c) == c.cap \in {"SendText", "SendReaction"}

\* C23: nothing is retried.  A unit of work issues at most one message POST;
\* a webhook request makes at most one text send and at most one media send
\* per attachment, also when a call fails.
C23_NoRetry ==
    /\ \A p \in Procs : CallCount(p, "postMessage") <= 1
    /\ out # NoOut
       => /\ Len(SelectSeq(out.calls, IsTextSend)) <= 1
          /\ Len(SelectSeq(out.calls, IsMediaSend))
               <= Len(EventAttachments(out.webhook))

\* C23 witness: the POST of a unit of work was refused by the desk and the
\* unit ended with that single POST.
C23_Witness ==
    /\ pc[1] = "done"
    /\ CallCount(1, "postMessage") = 1
    /\ calls[1][Len(calls[1])].op = "postMessage"
    /\ resp[1][Len(resp[1])] = "http4xx"
    /\ messages = {}

\* C25, as stated: whatever the content length, the pause before the send
\* lies between 500 and 2000 milliseconds.
C25_DelayWithinWindow ==
    out.handler \in {"part_005", "part_007", "chatwoot.go"}
    => out.delay >= 500 /\ out.delay <= 2000

\* C26, as stated: a request for an instance name the tenant directory does
\* not hold makes no presence call and no send.
C26_UnknownTenantAborted ==
    (out # NoOut /\ ~out.known) => out.calls = <<>>

-----------------------------------------------------------------------------
\* Properties of the media classifier.

IsClassified == out.handler = "extractMediaMeta"

\* C27: the mimetype returned for an image, a video, an audio or a document
\* holds no ";", whatever the raw mimetype.
C27_NoSemicolon ==
    (IsClassified /\ out.data.kind \in {"image", "video", "audio", "document"})
    => \A i \in DOMAIN out.mimetype : out.mimetype[i] # ";"

\* An image whose raw mimetype carries a parameter has been classified.
C27_Witness ==
    /\ IsClassified
    /\ out.data.kind = "image"
    /\ out.data.Mimetype = <<"i", "m", "a", "g", "e", "/", "p", "n", "g", ";", "x">>
    /\ out.mimetype = ImagePng

\* C28: an audio message is audio/ogg named <id>.ogg when its raw mimetype
\* contains "ogg", otherwise audio/mp4 named <id>.m4a when it contains
\* "mp4", otherwise ogg again; its caption is empty.  The raw mimetype
\* "audio/ogg; codecs=opus" with id ABC123 gives (ABC123.ogg, audio/ogg, "").
C28_AudioClassification ==
    (IsClassified /\ out.data.kind = "audio")
    => LET raw == out.data.Mimetype
           id == out.data.id
           ogg == /\ out.mimetype = <<"a", "u", "d", "i", "o", "/", "o", "g", "g">>
                  /\ out.filename = id \o <<".", "o", "g", "g">>
           m4a == /\ out.mimetype = <<"a", "u", "d", "i", "o", "/", "m", "p", "4">>
                  /\ out.filename = id \o <<".", "m", "4", "a">>
       IN  /\ out.caption = <<>>
           /\ Contains(raw, <<"o", "g", "g">>) => ogg
           /\ (~Contains(raw, <<"o", "g", "g">>) /\ Contains(raw, <<"m", "p", "4">>))
              => m4a
           /\ (~Contains(raw, <<"o", "g", "g">>) /\ ~Contains(raw, <<"m", "p", "4">>))
              => ogg

\* The voice note of the example has been classified as the example says.
C28_Witness ==
    /\ IsClassified
    /\ out.data.kind = "audio"
    /\ out.data.id = <<"A", "B", "C", "1", "2", "3">>
    /\ out.data.Mimetype = <<"a", "u", "d", "i", "o", "/", "o", "g", "g",
                           ";", " ", "c", "o", "d", "e", "c", "s", "=", "o",
                           "p", "u", "s">>
    /\ out.filename = <<"A", "B", "C", "1", "2", "3", ".", "o", "g", "g">>
    /\ out.mimetype = <<"a", "u", "d", "i", "o", "/", "o", "g", "g">>
    /\ out.caption = <<>>

\* C29, as stated: for an image or a video the mimetype is the raw one cut
\* at its first ";" and trimmed (image/jpeg or video/mp4 when that is
\* empty), the extension of the filename is the table entry of that
\* mimetype (jpg or mp4 when it has none), the caption is the message's.
C29_ImageVideoByTable ==
    (IsClassified /\ out.data.kind \in {"image", "video"})
    => LET image == out.data.kind = "image"
           clean == TrimSpace(BeforeSemicolon(out.data.Mimetype))
           mimetype == IF clean # <<>> THEN clean
                       ELSE IF image THEN ImageJpeg ELSE VideoMp4
           ext == mimetypeToExt(mimetype, IF image THEN <<"j", "p", "g">>
                                          ELSE <<"m", "p", "4">>)
       IN  /\ out.mimetype = mimetype
           /\ out.filename = out.data.id \o <<".">> \o ext
           /\ out.caption = out.data.Caption

-----------------------------------------------------------------------------
\* Properties of the dispatch of HandleMessage.

PostCalls(p) == {i \in DOMAIN calls[p] : calls[p][i].op = "postMessage"}

\* C30: a message without inline payload whose extracted text is empty is
\* dropped once its conversation is known: no lookup, nothing posted, and
\* the unit ends after a successful call; a message with an inline payload
\* goes to the media send and is never sent as text.
C30_EmptyDroppedMediaOnly ==
    \A p \in Procs :
        pc[p] # "idle" =>
            LET c == msg[p].Message
            IN  /\ (c.Base64 = <<>> /\ extractMessageText(msg[p]) = <<>>)
                   => /\ PostCalls(p) = {}
                      /\ guard[p] = NoGuard
                      /\ convID[p] > 0
                         => /\ pc[p] = "done"
                            /\ resp[p][Len(resp[p])] = "ok"
                /\ c.Base64 # <<>>
                   => /\ \A i \in PostCalls(p) : calls[p][i].c[2] = "media"
                      /\ Cardinality(PostCalls(p)) <= 1
                      /\ (convID[p] > 0 /\ DecodeStringOk(c.Base64))
                         => (pc[p] = "checkMessageExists" \/ guard[p].checked)

\* An image message without payload and without caption was dropped after
\* its conversation was created.
C30_Witness ==
    /\ pc[1] = "done"
    /\ msg[1].Message = MessageOf(<<>>, <<>>, "image", <<>>, <<>>)
    /\ convID[1] > 0
    /\ conversations # <<>>
    /\ PostCalls(1) = {}
    /\ messages = {}

-----------------------------------------------------------------------------
\* Properties of the reaction shortcut.

CallsOf(cap) == {i \in DOMAIN out.calls : out.calls[i].cap = cap}

\* The request was an outgoing, public message_created event that passed
\* the handler's checks of tenant, peer and source id.
Dispatched ==
    /\ out # NoOut
    /\ out.webhook.Event = "message_created"
    /\ out.webhook.MessageType = "outgoing"
    /\ ~out.webhook.Private
    /\ out.reply \in {"reaction_sent", "sent_to_whatsapp", "sent", "500"}

\* C31, as stated: a content of one emoji that references a prior message
\* is sent as one reaction to that message (its id without "WAID:") and not
\* as text; any other non-empty content is sent as text quoting the
\* referenced message.
C31_ReactionShortcut ==
    Dispatched =>
        LET w == out.webhook
            target == IF HasPrefix(w.InReplyTo, WAID)
                      THEN SubSeq(w.InReplyTo, Len(WAID) + 1, Len(w.InReplyTo))
                      ELSE w.InReplyTo
        IN  /\ (w.Content = <<"U+1F44D">> /\ w.InReplyTo # <<>>)
               => /\ Len(out.calls) = 1
                  /\ out.calls[1].cap = "SendReaction"
                  /\ out.calls[1].arg[2] = target
            /\ (w.Content # <<>> /\ ~(w.Content = <<"U+1F44D">> /\ w.InReplyTo # <<>>))
               => /\ CallsOf("SendReaction") = {}
                  /\ out.calls # <<>>
                  /\ out.calls[1].cap = "SendText"
                  /\ out.calls[1].arg = w.Content
                  /\ out.calls[1].quote = target

-----------------------------------------------------------------------------
\* Properties of the dedup store.

NewCall(p) == Len(calls'[p]) = Len(calls[p]) + 1

\* C32: the guard only reads the store, by (conversation id, source tag);
\* a record appears only when the desk answers a message POST with that
\* conversation and tag with success, and no step removes one.
C32_StoreWrittenByDeskOnly ==
    [][ /\ messages \subseteq messages'
        /\ \A r \in messages' \ messages :
              \E p \in Procs :
                 /\ NewCall(p)
                 /\ calls'[p][Len(calls'[p])].op = "postMessage"
                 /\ calls'[p][Len(calls'[p])].a = r.conv
                 /\ calls'[p][Len(calls'[p])].b = r.source_id
                 /\ resp'[p][Len(resp'[p])] = "ok"
        /\ \A p \in Procs :
              (NewCall(p) /\ calls'[p][Len(calls'[p])].op = "dbQuery")
              => /\ messages' = messages
                 /\ calls'[p][Len(calls'[p])].a = convID[p]
                 /\ calls'[p][Len(calls'[p])].b = WAID \o msg[p].Id ]_vars

\* A unit looked its tag up, did not find it, posted, and the desk recorded
\* the message under that tag.
C32_Witness ==
    /\ pc[1] = "done"
    /\ \E i \in DOMAIN calls[1] : calls[1][i].op = "dbQuery"
    /\ guard[1].queried /\ ~guard[1].exists /\ ~guard[1].err
    /\ \E r \in messages : r.conv = convID[1] /\ r.source_id = WAID \o msg[1].Id
    /\ resp[1][Len(resp[1])] = "ok"

-----------------------------------------------------------------------------
\* Properties of concurrent units of work.

\* The answer to the call op of unit p was a success (no such call: FALSE).
Answered(p, op) ==
    \E i \in DOMAIN calls[p] :
        calls[p][i].op = op /\ resp[p][i] \notin {"err", "deadline", "hang", "http4xx"}

\* The units that issued the create call op after their lookup was answered
\* with success.
Creators(lookup, op) ==
    {p \in Procs : Answered(p, lookup) /\ \E i \in DOMAIN calls[p] : calls[p][i].op = op}

\* C33, as stated: among concurrent units for one phone that the desk did
\* not know, at most one issues a create-contact call.
C33_OneContactCreate ==
    \A p, q \in Creators("searchContact", "createContact") :
        msg[p].RemoteJid = msg[q].RemoteJid => p = q

\* C34, as stated: among concurrent units for one contact without a
\* reusable conversation, at most one issues a create-conversation call.
C34_OneConversationCreate ==
    \A p, q \in Creators("listConversations", "createConversation") :
        contactID[p] = contactID[q] => p = q

-----------------------------------------------------------------------------
\* Properties of the ids HandleMessage works with.

\* C35: no conversation is listed or created for a contact id <= 0, and no
\* message is looked up or posted for a conversation id <= 0, whatever the
\* desk's answers decoded to.
C35_NoZeroIds ==
    \A p \in Procs :
        /\ \A i \in DOMAIN calls[p] :
              calls[p][i].op \in {"listConversations", "createConversation",
                                  "dbQuery", "postMessage"}
              => calls[p][i].a > 0
        /\ pc[p] \in {"findOrCreateConversation", "createConversation"}
           => contactID[p] > 0
        /\ pc[p] \in {"checkMessageExists", "post"} => convID[p] > 0

\* The desk created a conversation for a text message but its answer held
\* no id: the unit ended without a lookup and without a POST.
C35_Witness ==
    /\ pc[1] = "done"
    /\ resp[1] # <<>>
    /\ resp[1][Len(resp[1])] = "no id"
    /\ convID[1] = 0
    /\ msg[1].Message.Conversation # <<>>
    /\ \A i \in DOMAIN calls[1] : calls[1][i].op \notin {"dbQuery", "postMessage"}

-----------------------------------------------------------------------------
\* Properties of the typing signal around a send.

SendCaps ==
    {"SendText", "SendImage", "SendAudio", "SendDocument", "SendReaction"}

IsComposing(c, jid) ==
    c.cap = "ChatPresence" /\ c.arg = "composing" /\ c.jid = jid

\* C36, as stated: in a message_created request every send follows a
\* composing presence call for the same peer, and a composing call that
\* failed is still followed by the send.
C36_ComposingBeforeSend ==
    (out # NoOut /\ out.webhook.Event = "message_created")
    => /\ \A i \in DOMAIN out.calls :
             out.calls[i].cap \in SendCaps
             => \E j \in 1..(i - 1) : IsComposing(out.calls[j], out.calls[i].jid)
       /\ \A j \in DOMAIN out.calls :
             (IsComposing(out.calls[j], out.calls[j].jid) /\ ~out.calls[j].ok
              /\ out.webhook.Content # <<>>)
             => \E i \in (j + 1)..Len(out.calls) : out.calls[i].cap \in SendCaps

-----------------------------------------------------------------------------
\* Properties of a failing attachment.

MediaCaps == {"SendImage", "SendAudio", "SendDocument"}

\* C37, as stated: the first attachment send that fails is the last send of
\* the request, the reply reports an error, and the request ends with a
\* paused presence call.
C37_FirstFailureStops ==
    (out # NoOut /\ out.webhook.Event = "message_created")
    => \A i \in DOMAIN out.calls :
          (out.calls[i].cap \in MediaCaps /\ ~out.calls[i].ok)
          => /\ \A k \in (i + 1)..Len(out.calls) : out.calls[k].cap \notin SendCaps
             /\ out.reply \in {"error", "500"}
             /\ \E k \in (i + 1)..Len(out.calls) :
                   /\ out.calls[k].cap = "ChatPresence"
                   /\ out.calls[k].arg = "paused"

-----------------------------------------------------------------------------
\* Properties of the entry of HandleMessage.

\* What precedes the first "@" and the first ":" of a JID.
BeforeAtAndColon(jid) ==
    LET cut == {i \in DOMAIN jid : jid[i] \in {"@", ":"}}
    IN  IF cut = {} THEN jid
        ELSE SubSeq(jid, 1, (CHOOSE i \in cut : \A k \in cut : i <= k) - 1)

\* C38: a call made while the integration is disabled, with a nil message
\* or a nil key, or for a JID whose phone part is empty, issues no desk
\* call and no store query.
C38_EarlyReturns ==
    \A p \in Procs :
        (pc[p] # "idle"
         /\ (msg[p].entry # "ok" \/ BeforeAtAndColon(msg[p].RemoteJid) = <<>>))
        => /\ calls[p] = <<>>
           /\ resp[p] = <<>>
           /\ guard[p] = NoGuard
           /\ pc[p] = "done"

\* A message of a JID without phone part arrived with the integration
\* enabled and was dropped.
C38_Witness ==
    /\ pc[1] = "done"
    /\ msg[1].entry = "ok"
    /\ msg[1].RemoteJid = <<"@", "g", ".", "u", "s">>
    /\ msg[1].Message.Conversation # <<>>
    /\ calls[1] = <<>>

-----------------------------------------------------------------------------
\* Properties of EnsureInbox.

Created == \E i \in DOMAIN out.result.calls : out.result.calls[i] = "createInbox"

StoredExists ==
    /\ out.instance.ChatwootInboxID # <<>>
    /\ out.instance.ChatwootInboxID \in out.before

\* C39, as stated: a create-inbox call is issued only when the instance
\* stores no inbox id or the stored inbox is gone from the desk; for a
\* configured instance whose stored inbox exists, the stored id is returned
\* and nothing is created.
C39_CreateOnlyWhenMissing ==
    out.handler = "EnsureInbox"
    => /\ Created => ~StoredExists
       /\ (/\ StoredExists
           /\ out.instance.ChatwootURL # <<>>
           /\ out.instance.ChatwootToken # <<>>
           /\ out.instance.ChatwootAccountID # 0)
          => /\ out.result.id = out.instance.ChatwootInboxID
             /\ ~out.result.err
             /\ out.result.desk = out.before

=============================================================================
